---------------------------- MODULE Spec2Model ----------------------------
(***************************************************************************)
(* A model of the mshx OBJ -> MSHX mesh converter (src/main.go,            *)
(* src/bounds.go, type declarations in src/unnamed/part_000).              *)
(*                                                                         *)
(* Numbers.  Vertex coordinates are integers (small integers are exact in  *)
(* float32/float64, and so are their sums, differences and products).      *)
(* A stored normal is (1, Y*2^-17, Z*2^-17) and a texture coordinate is    *)
(* (U*2^-17, V*2^-17) for small integers Y, Z, U, V: both are exact in     *)
(* float32, and such a normal is a fixed point of Normal.normalize()       *)
(* (1 + Y*Y*2^-34 rounds to 1).  The model keeps the integers.             *)
(* Indices are kept 0-based as in the Go code; TLA+ sequences are 1-based, *)
(* so vertices[idx + 1] is Go's vertices[idx].                             *)
(***************************************************************************)
EXTENDS Integers, Sequences, FiniteSets, TLC

---------------------------------------------------------------------------
(* Arithmetic helpers *)

Abs(x) == IF x < 0 THEN -x ELSE x

Min(a, b) == IF a < b THEN a ELSE b

\* a/b < c/d for a, c >= 0 and b, d > 0, by continued fractions: exact, and
\* without the cross products that would leave the 32-bit integers.
RECURSIVE FracLess(_, _, _, _)
FracLess(a, b, c, d) ==
    LET qa == a \div b
        qc == c \div d
        ra == a % b
        rc == c % d
    IN  IF qa # qc THEN qa < qc
        ELSE IF rc = 0 THEN FALSE
        ELSE IF ra = 0 THEN TRUE
        ELSE FracLess(d, rc, b, ra)

\* floor(sqrt(n)) for 0 <= n < 2^31, by bisection.
RECURSIVE IsqrtIter(_, _, _)
IsqrtIter(n, lo, hi) ==
    IF lo >= hi THEN lo
    ELSE LET mid == (lo + hi + 1) \div 2
         IN  IF mid * mid <= n THEN IsqrtIter(n, mid, hi)
             ELSE IsqrtIter(n, lo, mid - 1)

Isqrt(n) == IsqrtIter(n, 0, 46340)

\* Truncation toward zero, as Go's integer division and float->int conversion.
TruncDiv(a, b) ==
    IF (a >= 0) = (b > 0) THEN Abs(a) \div Abs(b) ELSE -(Abs(a) \div Abs(b))

---------------------------------------------------------------------------
(* uint32 values as bit vectors: bit i of the value is b[i], i in 0..31.   *)

BitIdx == 0 .. 31

ToBits(x) ==
    [i \in BitIdx |-> IF i > 30 THEN 0 ELSE (x \div (2 ^ i)) % 2]

RECURSIVE BitsSum(_, _)
BitsSum(b, i) == IF i < 0 THEN 0 ELSE b[i] * (2 ^ i) + BitsSum(b, i - 1)

\* The number a bit vector below 2^31 stands for.
FromBits(b) == BitsSum(b, 30)

BitShl(b, k) == [i \in BitIdx |-> IF i >= k THEN b[i - k] ELSE 0]

BitOr(a, b) == [i \in BitIdx |-> IF a[i] = 1 \/ b[i] = 1 THEN 1 ELSE 0]

BitAnd(a, b) == [i \in BitIdx |-> IF a[i] = 1 /\ b[i] = 1 THEN 1 ELSE 0]

\* interleaveBits: spread the low 10 bits of x to every third bit.
\* 0x030000FF = 50331903, 0x0300F00F = 50393103, 0x030C30C3 = 51130563,
\* 0x09249249 = 153391689.
interleaveBits(x) ==
    LET x1 == BitAnd(BitOr(x, BitShl(x, 16)), ToBits(50331903))
        x2 == BitAnd(BitOr(x1, BitShl(x1, 8)), ToBits(50393103))
        x3 == BitAnd(BitOr(x2, BitShl(x2, 4)), ToBits(51130563))
        x4 == BitAnd(BitOr(x3, BitShl(x3, 2)), ToBits(153391689))
    IN  x4

\* Morton3D with y and z in each other's place.
Morton3DSwapped(x, y, z) ==
    FromBits(BitOr(interleaveBits(x),
                   BitOr(BitShl(interleaveBits(z), 1),
                         BitShl(interleaveBits(y), 2))))

\* Morton3D on bit vectors; the result is below 2^31 and returned as a number.
Morton3D(x, y, z) ==
    FromBits(BitOr(interleaveBits(x),
                   BitOr(BitShl(interleaveBits(y), 1),
                         BitShl(interleaveBits(z), 2))))

---------------------------------------------------------------------------
(* Geometry of ValidateQuad *)

crossProduct(a, b) ==
    << a[2] * b[3] - a[3] * b[2],
       a[3] * b[1] - a[1] * b[3],
       a[1] * b[2] - a[2] * b[1] >>

dotProduct(a, b) == a[1] * b[1] + a[2] * b[2] + a[3] * b[3]

crossProductZ(ax, ay, bx, by) == ax * by - ay * bx

\* A test that lets cross products of 0 pass.
isConvexOrFlat(ax, ay, bx, by, cx, cy, dx, dy) ==
    LET c1 == crossProductZ(bx - ax, by - ay, cx - bx, cy - by)
        c2 == crossProductZ(cx - bx, cy - by, dx - cx, dy - cy)
        c3 == crossProductZ(dx - cx, dy - cy, ax - dx, ay - dy)
        c4 == crossProductZ(ax - dx, ay - dy, bx - ax, by - ay)
    IN  \/ (c1 >= 0 /\ c2 >= 0 /\ c3 >= 0 /\ c4 >= 0)
        \/ (c1 <= 0 /\ c2 <= 0 /\ c3 <= 0 /\ c4 <= 0)

isConvex(ax, ay, bx, by, cx, cy, dx, dy) ==
    LET v1x == bx - ax
        v1y == by - ay
        v2x == cx - bx
        v2y == cy - by
        v3x == dx - cx
        v3y == dy - cy
        v4x == ax - dx
        v4y == ay - dy
        c1 == crossProductZ(v1x, v1y, v2x, v2y)
        c2 == crossProductZ(v2x, v2y, v3x, v3y)
        c3 == crossProductZ(v3x, v3y, v4x, v4y)
        c4 == crossProductZ(v4x, v4y, v1x, v1y)
    IN  \/ (c1 > 0 /\ c2 > 0 /\ c3 > 0 /\ c4 > 0)
        \/ (c1 < 0 /\ c2 < 0 /\ c3 < 0 /\ c4 < 0)

Pos(p) == << p.X, p.Y, p.Z >>

Sub(a, b) == << a[1] - b[1], a[2] - b[2], a[3] - b[3] >>

\* math.Abs(dot) < 0.999 for dot = (n1 . n2) / (|n1| |n2|).  A zero-length
\* cross product makes every normalised component 0/0 = NaN, the dot
\* product NaN, and the comparison false.  Otherwise the comparison is
\* decided on the squares: (n1.n2)^2 / (|n1|^2 |n2|^2) < 0.998001; the two
\* sides are never equal for the integers in range (998001/10^6 is in
\* lowest terms), so rounding in sqrt and the divisions cannot change it.
NotPlanar(p0, p1, p2, p3) ==
    LET ab == Sub(p1, p0)
        ac == Sub(p2, p0)
        ad == Sub(p3, p0)
        n1 == crossProduct(ab, ac)
        n2 == crossProduct(ac, ad)
        l1 == dotProduct(n1, n1)
        l2 == dotProduct(n2, n2)
        d  == dotProduct(n1, n2)
    IN  IF l1 = 0 \/ l2 = 0 THEN FALSE
        ELSE FracLess(d * d, l1 * l2, 998001, 1000000)

\* Face.ValidateQuad: "ok", or the error it returns.
ValidateQuad(vs, f) ==
    LET p0 == Pos(vs[f.v[1] + 1])
        p1 == Pos(vs[f.v[2] + 1])
        p2 == Pos(vs[f.v[3] + 1])
        p3 == Pos(vs[f.v[4] + 1])
    IN  IF NotPlanar(p0, p1, p2, p3) THEN "quad face is not planar"
        ELSE IF ~isConvex(p0[1], p0[2], p1[1], p1[2],
                          p2[1], p2[2], p3[1], p3[2])
             THEN "quad face is not convex"
        ELSE "ok"

\* FakeQuadCheck: TRUE when it prints "Fake Quad": the four vertex indices
\* of the face take exactly three distinct values.
FakeQuadCheck(f) ==
    Cardinality({f.v[1], f.v[2], f.v[3], f.v[4]}) = 3

---------------------------------------------------------------------------
(* The store.  A face is                                                   *)
(*   [edges, v, n, t, uv, materialID, materialName, mortonCode, complete]  *)
(* plus id, the position the face had in the parsed file: id is history,   *)
(* read by no operation.  An attribute entry carries flushed and, likewise,*)
(* id, its position in the parsed file.                                    *)

\* The set of elements of a sequence.
Range(s) == {s[k] : k \in 1 .. Len(s)}

\* RemoveAtIndex(s, index) = slices.Delete(s, index, index+1), 0-based.
RemoveAtIndex(s, index) ==
    [k \in 1 .. Len(s) - 1 |-> IF k <= index THEN s[k] ELSE s[k + 1]]

\* Capacity append gives a full slice of capacity c: runtime.growslice
\* doubles a small slice (1 from empty); for the 136-byte Face the size
\* classes leave that unchanged up to capacity 16.
GrowCap(c) == IF c = 0 THEN 1 ELSE 2 * c

\* Capacity of a slice built by n single appends from empty.
RECURSIVE CapAfterAppends(_)
CapAfterAppends(n) ==
    IF n = 0 THEN 0
    ELSE LET c == CapAfterAppends(n - 1)
         IN  IF n - 1 < c THEN c ELSE GrowCap(c)

\* The quad's own record after ConvertQuadToTriangles.  f.edges = 3 is set
\* through the pointer before the append.  The three RemoveAtIndex results
\* are stored through the same pointer after it: when the append moved the
\* faces to a new array (moved), they land in the abandoned copy and the
\* live face keeps its length-4 index arrays.  slices.Delete shares the
\* index arrays' storage with the live face and, from Go 1.22 on, zeroes
\* the vacated last element (cleared); before 1.22 it leaves it.
TruncatedQuad(f, moved, cleared) ==
    IF moved
    THEN [f EXCEPT !.edges = 3,
                   !.v[4] = IF cleared THEN 0 ELSE @,
                   !.n[4] = IF cleared THEN 0 ELSE @,
                   !.uv[4] = IF cleared THEN 0 ELSE @]
    ELSE [f EXCEPT !.edges = 3,
                   !.v = RemoveAtIndex(@, 3),
                   !.n = RemoveAtIndex(@, 3),
                   !.uv = RemoveAtIndex(@, 3)]

\* A second triangle on corners (1,2,3).
TriangleOffByOne(f, newId) ==
    [edges |-> 3,
     v |-> << f.v[2], f.v[3], f.v[4] >>,
     n |-> << f.n[2], f.n[3], f.n[4] >>,
     t |-> << >>,
     uv |-> << f.uv[2], f.uv[3], f.uv[4] >>,
     materialID |-> f.materialID,
     materialName |-> f.materialName,
     mortonCode |-> 0,
     complete |-> FALSE,
     id |-> newId]

\* A second face that is a quad again, on corners (0,2,3,3).
SecondQuad(f, newId) ==
    [edges |-> 4,
     v |-> << f.v[1], f.v[3], f.v[4], f.v[4] >>,
     n |-> << f.n[1], f.n[3], f.n[4], f.n[4] >>,
     t |-> << >>,
     uv |-> << f.uv[1], f.uv[3], f.uv[4], f.uv[4] >>,
     materialID |-> f.materialID,
     materialName |-> f.materialName,
     mortonCode |-> 0,
     complete |-> FALSE,
     id |-> newId]

\* The triangle (0,2,3) ConvertQuadToTriangles appends.
SecondTriangle(f, newId) ==
    [edges |-> 3,
     v |-> << f.v[1], f.v[3], f.v[4] >>,
     n |-> << f.n[1], f.n[3], f.n[4] >>,
     t |-> << >>,
     uv |-> << f.uv[1], f.uv[3], f.uv[4] >>,
     materialID |-> f.materialID,
     materialName |-> f.materialName,
     mortonCode |-> 0,
     complete |-> FALSE,
     id |-> newId]

\* ConvertQuadToTriangles(&faces[i]) (i 0-based) on faces fs of capacity
\* cap: [panic, faces, cap].  Reading f.n[0] or f.uv[0] of a face without
\* normal or uv indices is an index out of range; len(f.t) is never 4.
ConvertQuadToTriangles(fs, cap, i, cleared) ==
    LET f == fs[i + 1]
        moved == Len(fs) = cap
    IN  IF Len(f.n) < 4 \/ Len(f.uv) < 4
        THEN [panic |-> TRUE, faces |-> fs, cap |-> cap]
        ELSE [panic |-> FALSE,
              faces |-> Append([fs EXCEPT ![i + 1] =
                                   TruncatedQuad(f, moved, cleared)],
                               SecondTriangle(f, Len(fs))),
              cap |-> IF moved THEN GrowCap(cap) ELSE cap]

---------------------------------------------------------------------------
(* DeDupe.  The three attribute classes are named by the face field that   *)
(* indexes them: "v" vertices, "n" normals, "uv" texture coordinates.      *)

\* The test that merges entry b into entry a.
\*  "v":  sqrt(dx*dx + dy*dy + dz*dz) < vT = 0.0001: the sum is a
\*        non-negative integer, so this is sum = 0;
\*  "n":  |dx|, |dy|, |dz| < nT = 0.00001 on every axis: X is 1 for every
\*        normal; a difference k*2^-17 (2^-17 = 0.0000076) is below nT iff
\*        |k| <= 1;
\*  "uv": |du|, |dv| < uvT = 0.00001, likewise.
Close(cls, a, b) ==
    CASE cls = "v" ->
           (a.X - b.X) * (a.X - b.X) + (a.Y - b.Y) * (a.Y - b.Y)
             + (a.Z - b.Z) * (a.Z - b.Z) < 1
      [] cls = "n" -> Abs(a.Y - b.Y) < 2 /\ Abs(a.Z - b.Z) < 2
      [] cls = "uv" -> Abs(a.U - b.U) < 2 /\ Abs(a.V - b.V) < 2

\* The vertex loop's guard taken for every class.
SkipOuterUnlessFlushed(cls, e) == ~e.flushed

\* The guard that makes the outer merge loop skip entry e: `continue` when
\* the entry is NOT flushed for vertices (main.go:582), when it IS flushed
\* for normals and texture coordinates (main.go:619, 655).
SkipOuter(cls, e) ==
    IF cls = "v" THEN ~e.flushed ELSE e.flushed

\* Some face has fewer than `edges` indices of class cls: the loops
\* `for l < edges { faces[k].<cls>[l] }` then index out of range.
ShortFace(cls, fs) ==
    \E k \in 1 .. Len(fs) : Len(fs[k][cls]) < fs[k].edges

\* for k, l: if faces[k].<cls>[l] == j { faces[k].<cls>[l] = i }
RewriteRefs(cls, fs, j, i) ==
    [k \in 1 .. Len(fs) |->
        [fs[k] EXCEPT ![cls] =
            [l \in 1 .. Len(@) |->
                IF l <= fs[k].edges /\ @[l] = j THEN i ELSE @[l]]]]

\* A removal that leaves the face indices alone.
KeepRefs(cls, fs, i) == fs

\* for k, l: if faces[k].<cls>[l] > i { faces[k].<cls>[l]-- }
DecrementRefs(cls, fs, i) ==
    [k \in 1 .. Len(fs) |->
        [fs[k] EXCEPT ![cls] =
            [l \in 1 .. Len(@) |->
                IF l <= fs[k].edges /\ @[l] > i THEN @[l] - 1 ELSE @[l]]]]

\* The inner merge loop from j on, for a fixed i (both 0-based).
\* st = [arr, faces, dupe, panic].
RECURSIVE MergeInner(_, _, _, _)
MergeInner(cls, st, i, j) ==
    IF st.panic \/ j >= Len(st.arr) THEN st
    ELSE IF Close(cls, st.arr[i + 1], st.arr[j + 1])
         THEN IF ShortFace(cls, st.faces)
              THEN [st EXCEPT !.panic = TRUE]
              ELSE MergeInner(cls,
                     [st EXCEPT !.faces = RewriteRefs(cls, @, j, i),
                                !.arr[j + 1].flushed = TRUE,
                                !.dupe = @ + 1],
                     i, j + 1)
         ELSE MergeInner(cls, st, i, j + 1)

\* The outer merge loop from i on.
RECURSIVE MergeOuter(_, _, _)
MergeOuter(cls, st, i) ==
    IF st.panic \/ i >= Len(st.arr) THEN st
    ELSE IF SkipOuter(cls, st.arr[i + 1]) THEN MergeOuter(cls, st, i + 1)
         ELSE MergeOuter(cls, MergeInner(cls, st, i, i + 1), i + 1)

\* The removal loop from i on: a flushed entry is deleted, every greater
\* face index is decremented, and i is examined again.
RECURSIVE RemoveFlushed(_, _, _)
RemoveFlushed(cls, st, i) ==
    IF st.panic \/ i >= Len(st.arr) THEN st
    ELSE IF st.arr[i + 1].flushed
         THEN IF ShortFace(cls, st.faces)
              THEN [st EXCEPT !.panic = TRUE]
              ELSE RemoveFlushed(cls,
                     [st EXCEPT !.arr = RemoveAtIndex(@, i),
                                !.faces = DecrementRefs(cls, @, i)],
                     i)
         ELSE RemoveFlushed(cls, st, i + 1)

\* One attribute class of DeDupe: merge, then remove.
DeDupeClass(cls, arr, fs) ==
    RemoveFlushed(cls,
                  MergeOuter(cls,
                             [arr |-> arr, faces |-> fs, dupe |-> 0,
                              panic |-> FALSE],
                             0),
                  0)

\* DeDupe: vertices, then normals, then texture coordinates; the counts
\* are the numbers the three "Removed %d duplicate ..." lines print.
DeDupe(vs, ns, ts, fs) ==
    LET rv == DeDupeClass("v", vs, fs)
        rn == DeDupeClass("n", ns, rv.faces)
        ru == DeDupeClass("uv", ts, rn.faces)
    IN  [panic |-> rv.panic \/ rn.panic \/ ru.panic,
         vertices |-> rv.arr,
         normals |-> rn.arr,
         textureCoords |-> ru.arr,
         faces |-> ru.faces,
         dupeV |-> rv.dupe,
         dupeN |-> rn.dupe,
         dupeU |-> ru.dupe]

---------------------------------------------------------------------------
(* The bounding sphere (src/bounds.go).  Lengths that are not integers     *)
(* (square roots, the grown centre and radius) are kept in fixed point,    *)
(* FixOne units to one coordinate unit, truncated: the model's stand-in    *)
(* for float32/float64 rounding.                                           *)

FixOne == 2 ^ 12

\* Squared distance of two integer triples.
DistSq(a, b) == dotProduct(Sub(a, b), Sub(a, b))

\* FarthestPoint(points, ref) from entry k on: the first point whose
\* distance is strictly greater than every earlier one.  Distances of
\* integer points compare as their squares.
RECURSIVE FarthestFrom(_, _, _, _, _)
FarthestFrom(points, ref, k, best, maxSq) ==
    IF k > Len(points) THEN best
    ELSE LET d == DistSq(ref, Pos(points[k]))
         IN  IF d > maxSq THEN FarthestFrom(points, ref, k + 1, Pos(points[k]), d)
             ELSE FarthestFrom(points, ref, k + 1, best, maxSq)

FarthestPoint(points, ref) == FarthestFrom(points, ref, 1, << 0, 0, 0 >>, -1)

\* Step 5 left out: the sphere on the diameter p1 p2.
NoExpand(points, k, c, r) == [center |-> c, radius |-> r]

\* Step 5 of RitterBoundingSphere from point k on; c and r in fixed point.
RECURSIVE Expand(_, _, _, _)
Expand(points, k, c, r) ==
    IF k > Len(points) THEN [center |-> c, radius |-> r]
    ELSE LET p == Pos(points[k])
             pf == << p[1] * FixOne, p[2] * FixOne, p[3] * FixOne >>
             dist == Isqrt(DistSq(c, pf))
         IN  IF dist > r
             THEN LET newRadius == (r + dist) \div 2
                      grow == newRadius - r
                  IN  Expand(points, k + 1,
                             << c[1] + TruncDiv((pf[1] - c[1]) * grow, dist),
                                c[2] + TruncDiv((pf[2] - c[2]) * grow, dist),
                                c[3] + TruncDiv((pf[3] - c[3]) * grow, dist) >>,
                             newRadius)
             ELSE Expand(points, k + 1, c, r)

\* RitterBoundingSphere(points): centre and radius in fixed point.
RitterBoundingSphere(points) ==
    IF Len(points) = 0 THEN [center |-> << 0, 0, 0 >>, radius |-> 0]
    ELSE LET p0 == Pos(points[1])
             p1 == FarthestPoint(points, p0)
             p2 == FarthestPoint(points, p1)
             half == FixOne \div 2
         IN  Expand(points, 1,
                    << (p1[1] + p2[1]) * half, (p1[2] + p2[2]) * half,
                       (p1[3] + p2[3]) * half >>,
                    Isqrt(DistSq(p1, p2) * half * half))

---------------------------------------------------------------------------
(* OptimiseMesh *)

\* What uint32(x) may give for a float x it cannot represent (NaN, an
\* infinity, -1 or less): Go leaves the value to the implementation; the
\* model lets it be 0 or 0xFFFFFFFF.
UndefinedConversions == {[i \in BitIdx |-> 0], [i \in BitIdx |-> 1]}

\* uint32(((c - lo) / (hi - lo)) * 1024.0) for num = c - lo and
\* width = hi - lo: truncation toward zero when the product is above -1,
\* else (and for width 0, where the quotient is NaN or infinite) the
\* undefined conversion u.
Quantize(num, width, u) ==
    IF width = 0 THEN u
    ELSE LET q == TruncDiv(num * 1024, width)
         IN  IF num * 1024 <= -width THEN u ELSE ToBits(q)

\* Sum of coordinate c (1, 2, 3) over the first `edges` corners of face f.
RECURSIVE CornerSum(_, _, _, _)
CornerSum(vs, f, c, j) ==
    IF j = 0 THEN 0
    ELSE Pos(vs[f.v[j] + 1])[c] + CornerSum(vs, f, c, j - 1)

\* icx, icy, icz of face f: the centroid, normalised to the extents
\* centre -/+ radius of the bounding sphere, quantised.
QuantizedCentroid(vs, f, sphere, u) ==
    LET ext == [c \in 1 .. 3 |->
                   [lo |-> sphere.center[c] - sphere.radius,
                    hi |-> sphere.center[c] + sphere.radius]]
        cen == [c \in 1 .. 3 |->
                   TruncDiv(CornerSum(vs, f, c, f.edges) * FixOne, f.edges)]
    IN  [c \in 1 .. 3 |->
            Quantize(cen[c] - ext[c].lo, ext[c].hi - ext[c].lo, u)]

\* The Morton code OptimiseMesh stores in face f.
FaceMortonCode(vs, f, sphere, u) ==
    LET q == QuantizedCentroid(vs, f, sphere, u)
    IN  Morton3D(q[1], q[2], q[3])

\* The comparison function handed to slices.SortFunc.
CompareFaces(a, b) ==
    IF a.mortonCode < b.mortonCode THEN -1
    ELSE IF a.mortonCode > b.mortonCode THEN 1
    ELSE 0

\* Insertion of x into a sorted sequence: x moves left past every element
\* it compares less than (insertionSortCmpFunc).
RECURSIVE InsertSorted(_, _)
InsertSorted(s, x) ==
    IF s = << >> THEN << x >>
    ELSE IF CompareFaces(x, s[Len(s)]) < 0
         THEN Append(InsertSorted(SubSeq(s, 1, Len(s) - 1), x), s[Len(s)])
         ELSE Append(s, x)

RECURSIVE InsertionSort(_, _)
InsertionSort(fs, k) ==
    IF k = 0 THEN << >>
    ELSE InsertSorted(InsertionSort(fs, k - 1), fs[k])

\* Every ordering of the faces with positions in S that the comparison
\* admits: each element compares less than or equal to its successor.
RECURSIVE SortedOrders(_, _)
SortedOrders(fs, S) ==
    IF S = {} THEN {<< >>}
    ELSE LET least == {k \in S : \A m \in S : CompareFaces(fs[k], fs[m]) <= 0}
         IN  UNION {{<< fs[k] >> \o r : r \in SortedOrders(fs, S \ {k})} :
                    k \in least}

\* A sort that leaves the faces as they are.
Unsorted(fs) == {fs}

\* The results slices.SortFunc may leave.  It "is not guaranteed to be
\* stable"; what every Go release does is an insertion sort, which is
\* stable, for slices of at most 12 elements.
SortFunc(fs) ==
    IF Len(fs) <= 12 THEN {InsertionSort(fs, Len(fs))}
    ELSE SortedOrders(fs, 1 .. Len(fs))

\* <cls>FaceUse: for every entry, the faces (0-based) with a corner on it.
FaceUse(cls, arr, fs) ==
    [idx \in 0 .. Len(arr) - 1 |->
        {k \in 0 .. Len(fs) - 1 :
            \E l \in 1 .. fs[k + 1].edges : fs[k + 1][cls][l] = idx}]

\* for l < edges: if face.<cls>[l] == idx { face.<cls>[l] = curIndex }
SetCorners(cls, f, idx, cur) ==
    [f EXCEPT ![cls] =
        [l \in 1 .. Len(f[cls]) |->
            IF l <= f.edges /\ f[cls][l] = idx THEN cur ELSE f[cls][l]]]

\* The body with curIndex counted up before the corners are set.
RemapEntryCountingFirst(cls, st, idx) ==
    [st EXCEPT
       !.faces = [k \in 1 .. Len(st.faces) |->
                    IF (k - 1) \in st.use[idx] /\ ~st.faces[k].complete
                    THEN SetCorners(cls, st.faces[k], idx, st.cur + 1)
                    ELSE st.faces[k]],
       !.use[idx] = {},
       !.new = Append(st.new, st.arr[idx + 1]),
       !.arr[idx + 1].flushed = TRUE,
       !.cur = st.cur + 1]

\* The body of `if !<arr>[idx].flushed`: every face of use[idx] that is not
\* complete has its corners equal to idx set to curIndex; the entry is
\* appended to the new array and marked.
\* st = [arr, faces, use, new, cur, panic].
RemapEntry(cls, st, idx) ==
    [st EXCEPT
       !.faces = [k \in 1 .. Len(st.faces) |->
                    IF (k - 1) \in st.use[idx] /\ ~st.faces[k].complete
                    THEN SetCorners(cls, st.faces[k], idx, st.cur)
                    ELSE st.faces[k]],
       !.use[idx] = {},
       !.new = Append(st.new, st.arr[idx + 1]),
       !.arr[idx + 1].flushed = TRUE,
       !.cur = st.cur + 1]

\* The remap loop from corner j of face i on (0-based).
RECURSIVE RemapLoop(_, _, _, _)
RemapLoop(cls, st, i, j) ==
    IF st.panic \/ i >= Len(st.faces) THEN st
    ELSE IF j >= st.faces[i + 1].edges
         THEN RemapLoop(cls, [st EXCEPT !.faces[i + 1].complete = TRUE],
                        i + 1, 0)
         ELSE LET idx == st.faces[i + 1][cls][j + 1]
              IN  IF idx >= Len(st.arr) THEN [st EXCEPT !.panic = TRUE]
                  ELSE IF ~st.arr[idx + 1].flushed
                       THEN RemapLoop(cls, RemapEntry(cls, st, idx), i, j + 1)
                       ELSE RemapLoop(cls, st, i, j + 1)

\* One of the three rebuild passes of OptimiseMesh: [panic, arr, faces].
\* Building the use table reads faces[i].<cls>[j] for every j < edges and
\* indexes the table with it: out of range for a face with fewer indices
\* and for an index beyond the array.
RemapClass(cls, arr, fs) ==
    LET cleared == [k \in 1 .. Len(fs) |-> [fs[k] EXCEPT !.complete = FALSE]]
        bad == \/ ShortFace(cls, fs)
               \/ \E k \in 1 .. Len(fs) : \E l \in 1 .. fs[k].edges :
                     fs[k][cls][l] >= Len(arr)
    IN  IF bad THEN [panic |-> TRUE, arr |-> arr, faces |-> fs]
        ELSE LET st == RemapLoop(cls,
                         [arr |-> arr, faces |-> cleared,
                          use |-> FaceUse(cls, arr, fs), new |-> << >>,
                          cur |-> 0, panic |-> FALSE],
                         0, 0)
             IN  [panic |-> st.panic, arr |-> st.new, faces |-> st.faces]

\* The faces with their Morton codes stored.
WithMortonCodes(vs, fs, sphere, u) ==
    [k \in 1 .. Len(fs) |->
        [fs[k] EXCEPT !.mortonCode = FaceMortonCode(vs, fs[k], sphere, u)]]

\* OptimiseMesh after the sort left the faces as `sorted`: the three
\* rebuild passes.
RebuildArrays(vs, ns, ts, sorted) ==
    LET rv == RemapClass("v", vs, sorted)
        rn == IF rv.panic THEN rv ELSE RemapClass("n", ns, rv.faces)
        ru == IF rn.panic THEN rn ELSE RemapClass("uv", ts, rn.faces)
    IN  [panic |-> ru.panic,
         vertices |-> rv.arr,
         normals |-> rn.arr,
         textureCoords |-> ru.arr,
         faces |-> ru.faces]

---------------------------------------------------------------------------
(* WriteOutput.  The file is a sequence of bytes.  A byte of an integer    *)
(* field is its value 0..255; byte k (0 the least significant) of a        *)
(* float32 field holding x is the record [f32 |-> x, byte |-> k].          *)

\* binary.Write of a uint32 (x < 2^31).
U32(x, le) ==
    LET b == [k \in 1 .. 4 |-> (x \div (256 ^ (k - 1))) % 256]
    IN  IF le THEN b ELSE << b[4], b[3], b[2], b[1] >>

\* binary.Write of a float32.
F32(x, le) ==
    LET b == [k \in 1 .. 4 |-> [f32 |-> x, byte |-> k - 1]]
    IN  IF le THEN b ELSE << b[4], b[3], b[2], b[1] >>

\* binary.Write of a [3]float32.
F32x3(a, le) == F32(a[1], le) \o F32(a[2], le) \o F32(a[3], le)

\* Concatenation of g(1) .. g(n), for a sequence g of byte sequences.
RECURSIVE Flatten(_, _)
Flatten(g, n) == IF n = 0 THEN << >> ELSE Flatten(g, n - 1) \o g[n]

\* The magic, the version, the six counts, vertexType and the sphere.
HeaderBytes(vs, ns, ts, fs, ms, vtype, sphere, le) ==
    << 77, 83, 72, 88 >> \o U32(1, le)
      \o U32(Len(vs), le) \o U32(Len(ns), le) \o U32(0, le)
      \o U32(Len(ts), le) \o U32(Len(fs), le) \o U32(Len(ms), le)
      \o U32(vtype, le)
      \o F32(sphere.center[1], le) \o F32(sphere.center[2], le)
      \o F32(sphere.center[3], le) \o F32(sphere.radius, le)

VertexBytes(p, vtype, le) ==
    F32(p.X, le) \o F32(p.Y, le) \o F32(p.Z, le)
      \o (IF vtype = 1
          THEN F32(p.A, le) \o F32(p.R, le) \o F32(p.G, le) \o F32(p.B, le)
          ELSE << >>)

NormalBytes(p, le) == F32(p.X, le) \o F32(p.Y, le) \o F32(p.Z, le)

TexCoordBytes(p, le) == F32(p.U, le) \o F32(p.V, le)

\* The first `edges` indices of one index array of a face, as far as the
\* array reaches.
IndexBytes(idx, edges, le) ==
    Flatten([l \in 1 .. Min(edges, Len(idx)) |-> U32(idx[l], le)],
            Min(edges, Len(idx)))

\* One face record: [panic, bytes].  The three loops run j < edges over
\* v, n and uv; the first array shorter than edges ends the record, and
\* the program, with an index out of range.
FaceBytes(f, le) ==
    LET head == << f.edges >> \o IndexBytes(f.v, f.edges, le)
    IN  IF Len(f.v) < f.edges THEN [panic |-> TRUE, bytes |-> head]
        ELSE IF Len(f.n) < f.edges
        THEN [panic |-> TRUE, bytes |-> head \o IndexBytes(f.n, f.edges, le)]
        ELSE IF Len(f.uv) < f.edges
        THEN [panic |-> TRUE,
              bytes |-> head \o IndexBytes(f.n, f.edges, le)
                          \o IndexBytes(f.uv, f.edges, le)]
        ELSE [panic |-> FALSE,
              bytes |-> head \o IndexBytes(f.n, f.edges, le)
                          \o IndexBytes(f.uv, f.edges, le)
                          \o U32(f.materialID, le)]

\* The face records from face k on: [panic, bytes].
RECURSIVE FacesBytes(_, _, _)
FacesBytes(fs, k, le) ==
    IF k > Len(fs) THEN [panic |-> FALSE, bytes |-> << >>]
    ELSE LET one == FaceBytes(fs[k], le)
         IN  IF one.panic THEN one
             ELSE LET rest == FacesBytes(fs, k + 1, le)
                  IN  [panic |-> rest.panic, bytes |-> one.bytes \o rest.bytes]

\* A material record with the colours in the order ambient, diffuse,
\* specular, emissive, transmissive.
MaterialBytesAmbientFirst(m, le) ==
    F32x3(m.ambient, le) \o F32x3(m.diffuse, le) \o F32x3(m.specular, le)
      \o F32x3(m.emissive, le) \o F32x3(m.transmissive, le)
      \o F32(m.power, le) \o F32(m.transparency, le)
      \o F32(m.refractivity, le)
      \o U32(m.illum, le)
      \o F32(m.roughness, le) \o F32(m.metallic, le) \o F32(m.sheen, le)
      \o F32(m.clearcoat_thickness, le) \o F32(m.clearcoat_roughness, le)
      \o F32(m.aniso, le) \o F32(m.aniso_rotation, le)
      \o U32(Len(m.texture), le) \o m.texture

\* One material record; the texture name is a sequence of bytes.
MaterialBytes(m, le) ==
    F32x3(m.diffuse, le) \o F32x3(m.specular, le) \o F32x3(m.ambient, le)
      \o F32x3(m.transmissive, le) \o F32x3(m.emissive, le)
      \o F32(m.power, le) \o F32(m.transparency, le)
      \o F32(m.refractivity, le)
      \o U32(m.illum, le)
      \o F32(m.roughness, le) \o F32(m.metallic, le) \o F32(m.sheen, le)
      \o F32(m.clearcoat_thickness, le) \o F32(m.clearcoat_roughness, le)
      \o F32(m.aniso, le) \o F32(m.aniso_rotation, le)
      \o U32(Len(m.texture), le) \o m.texture

\* Everything ahead of the face records: the header and the three
\* attribute arrays.
FrontBytes(vs, ns, ts, fs, ms, vtype, sphere, le) ==
    HeaderBytes(vs, ns, ts, fs, ms, vtype, sphere, le)
      \o Flatten([k \in 1 .. Len(vs) |-> VertexBytes(vs[k], vtype, le)],
                 Len(vs))
      \o Flatten([k \in 1 .. Len(ns) |-> NormalBytes(ns[k], le)], Len(ns))
      \o Flatten([k \in 1 .. Len(ts) |-> TexCoordBytes(ts[k], le)], Len(ts))

MaterialsBytes(ms, le) ==
    Flatten([k \in 1 .. Len(ms) |-> MaterialBytes(ms[k], le)], Len(ms))

\* WriteOutput: [panic, bytes], the bytes handed to the bufio.Writer up to
\* the end, or up to the panic.
WriteOutput(vs, ns, ts, fs, ms, vtype, sphere, le) ==
    LET front == FrontBytes(vs, ns, ts, fs, ms, vtype, sphere, le)
        fb == FacesBytes(fs, 1, le)
    IN  IF fb.panic THEN [panic |-> TRUE, bytes |-> front \o fb.bytes]
        ELSE [panic |-> FALSE,
              bytes |-> front \o fb.bytes \o MaterialsBytes(ms, le)]

\* What has reached the file when the program stops without writer.Flush:
\* the bufio.Writer passes its 4096-byte buffer on each time it fills.
FlushedPrefix(bytes) == SubSeq(bytes, 1, (Len(bytes) \div 4096) * 4096)

---------------------------------------------------------------------------
(* The program state *)

VARIABLES
    vertices,       \* []Vertex
    normals,        \* []Normal
    textureCoords,  \* []TextureCoord
    faces,          \* []Face
    facesCap,       \* cap(faces)
    materials,      \* []Material
    materialMap,    \* map[string]uint32
    boundSphere,    \* BoundSphere, in fixed point
    vertexType,     \* 0 = xyz, 1 = xyz + argb
    qPtr,           \* -q
    dPtr,           \* -d
    moPtr,          \* -mo
    lePtr,          \* -le (FALSE: -be)
    pc,             \* where main is
    i,              \* the validation loop's i
    stdout,         \* what the program has printed, as events
    outputFile,     \* the bytes of the output file
    pre,            \* history: the store as the last of DeDupe and
                    \* OptimiseMesh found it
    parsed          \* history: the faces as ProcessOBJFile left them

vars == << vertices, normals, textureCoords, faces, facesCap, materials,
           materialMap, boundSphere, vertexType, qPtr, dPtr, moPtr, lePtr,
           pc, i, stdout, outputFile, pre, parsed >>

store == << vertices, normals, textureCoords, faces, facesCap >>

flags == << qPtr, dPtr, moPtr, lePtr >>

Snapshot == [vertices |-> vertices, normals |-> normals,
             textureCoords |-> textureCoords, faces |-> faces]

---------------------------------------------------------------------------
(* What ProcessOBJFile and ProcessMaterialFile leave *)

\* "v x y z": w and the colour default to 1.0.
Vertex(x, y, z, id) ==
    [X |-> x, Y |-> y, Z |-> z, W |-> 1, A |-> 1, R |-> 1, G |-> 1, B |-> 1,
     flushed |-> FALSE, id |-> id]

\* "vn": the normal (1, y*2^-17, z*2^-17), in units of 2^-17.
Normal(y, z, id) ==
    [X |-> 2 ^ 17, Y |-> y, Z |-> z, W |-> 0, flushed |-> FALSE, id |-> id]

\* "vt u v", in units of 2^-17.
TextureCoord(u, v, id) ==
    [U |-> u, V |-> v, W |-> 0, flushed |-> FALSE, id |-> id]

\* "f ...": one index per corner and class present; t is never filled.
Face(v, n, uv, name, id) ==
    [edges |-> Len(v), v |-> v, n |-> n, t |-> << >>, uv |-> uv,
     materialID |-> 0, materialName |-> name, mortonCode |-> 0,
     complete |-> FALSE, id |-> id]

\* "newmtl name" followed by property lines; every field gets a value of
\* its own so that the order of the written record shows.
Material(name, texture) ==
    [name |-> name,
     diffuse |-> << 1, 2, 3 >>, specular |-> << 4, 5, 6 >>,
     ambient |-> << 7, 8, 9 >>, transmissive |-> << 10, 11, 12 >>,
     emissive |-> << 13, 14, 15 >>,
     power |-> 16, transparency |-> 17, refractivity |-> 18, illum |-> 2,
     roughness |-> 19, metallic |-> 20, sheen |-> 21,
     clearcoat_thickness |-> 22, clearcoat_roughness |-> 23,
     aniso |-> 24, aniso_rotation |-> 25,
     texture |-> texture]

\* materialMap after the materials ms were defined in order: a later
\* material of the same name replaces the earlier index.
MaterialMapOf(ms) ==
    [nm \in {ms[k].name : k \in 1 .. Len(ms)} |->
        (CHOOSE k \in 1 .. Len(ms) :
            /\ ms[k].name = nm
            /\ \A m \in k + 1 .. Len(ms) : ms[m].name # nm) - 1]

\* A parsed file in which corner indices are shared by the classes, as in
\* "f 1/1/1 2/2/2 3/3/3": entry k of every class present is at offsets
\* pts[k]; idx[m] are the (0-based) indices of face m; hasN, hasUV tell
\* whether the file has vn and vt lines and indices.
ParsedStore(pts, idx, hasN, hasUV, ms, name) ==
    [vertices |-> [k \in 1 .. Len(pts) |->
                      Vertex(pts[k][1], pts[k][2], pts[k][3], k - 1)],
     normals |-> IF hasN
                 THEN [k \in 1 .. Len(pts) |->
                          Normal(pts[k][1], pts[k][2], k - 1)]
                 ELSE << >>,
     textureCoords |-> IF hasUV
                       THEN [k \in 1 .. Len(pts) |->
                                TextureCoord(pts[k][1], pts[k][2], k - 1)]
                       ELSE << >>,
     faces |-> [m \in 1 .. Len(idx) |->
                   Face(idx[m], IF hasN THEN idx[m] ELSE << >>,
                        IF hasUV THEN idx[m] ELSE << >>, name, m - 1)],
     materials |-> ms]

\* The state main is in when ProcessOBJFile has returned sc.
InitWith(sc, q, d, mo, le) ==
    /\ vertices = sc.vertices
    /\ normals = sc.normals
    /\ textureCoords = sc.textureCoords
    /\ faces = sc.faces
    /\ facesCap = CapAfterAppends(Len(sc.faces))
    /\ materials = sc.materials
    /\ materialMap = MaterialMapOf(sc.materials)
    /\ boundSphere = [center |-> << 0, 0, 0 >>, radius |-> 0]
    /\ vertexType = 0
    /\ qPtr = q
    /\ dPtr = d
    /\ moPtr = mo
    /\ lePtr = le
    /\ pc = "validate"
    /\ i = 0
    /\ stdout = << >>
    /\ outputFile = << >>
    /\ pre = [vertices |-> << >>, normals |-> << >>,
              textureCoords |-> << >>, faces |-> << >>]
    /\ parsed = sc.faces

---------------------------------------------------------------------------
(* main, one action per step *)

Panic(stage) ==
    /\ pc' = "panic"
    /\ stdout' = Append(stdout, << "panic", stage >>)

\* A validation error that ends the run nowhere.
FatalNever(err) == FALSE

\* A conversion of invalid quads only, whatever the mode.
ConvertsInvalidOnly(f, err) == f.edges = 4 /\ err # "ok" /\ qPtr \in {2, 3}

\* What ValidateQuad is called for and returns on face f: quads, under
\* -q 1 and -q 2.
ValidationError(f) ==
    IF f.edges = 4 /\ qPtr # 3 /\ qPtr > 0
    THEN ValidateQuad(vertices, f) ELSE "ok"

\* The error ends the run: -q 1.
Fatal(err) == err # "ok" /\ qPtr = 1

\* ConvertQuadToTriangles is called on face f: every quad under -q 3, the
\* quads with an error under -q 2.
Converts(f, err) == f.edges = 4 /\ (qPtr = 3 \/ (err # "ok" /\ qPtr = 2))

\* One iteration of the "Validate Quad Face Structure" loop.
ValidateFace ==
    /\ pc = "validate"
    /\ i < Len(faces)
    /\ LET f == faces[i + 1]
           fake == f.edges = 4 /\ qPtr # 3 /\ FakeQuadCheck(f)
           out1 == IF fake THEN Append(stdout, << "Fake Quad", i >>)
                   ELSE stdout
           err == ValidationError(f)
       IN  \E cleared \in BOOLEAN :
             LET r == IF Converts(f, err)
                      THEN ConvertQuadToTriangles(faces, facesCap, i, cleared)
                      ELSE [panic |-> FALSE, faces |-> faces, cap |-> facesCap]
             IN  IF Fatal(err)
                 THEN /\ pc' = "aborted"
                      /\ stdout' = Append(out1,
                                     << "Error validating quad face", err >>)
                      /\ UNCHANGED << faces, facesCap, i >>
                 ELSE IF r.panic
                 THEN /\ pc' = "panic"
                      /\ stdout' = Append(out1,
                                     << "panic", "ConvertQuadToTriangles" >>)
                      /\ faces' = [faces EXCEPT ![i + 1].edges = 3]
                      /\ UNCHANGED << facesCap, i >>
                 ELSE /\ pc' = "validate"
                      /\ stdout' = out1
                      /\ faces' = r.faces
                      /\ facesCap' = r.cap
                      /\ i' = i + 1
    /\ UNCHANGED << vertices, normals, textureCoords, materials, materialMap,
                    boundSphere, vertexType, flags, parsed, outputFile, pre >>

\* "Process material names to index values": a name the map does not hold
\* reads as index 0.
ResolveMaterials ==
    /\ pc = "validate"
    /\ i >= Len(faces)
    /\ faces' = [k \in 1 .. Len(faces) |->
                   [faces[k] EXCEPT !.materialID =
                       IF faces[k].materialName \in DOMAIN materialMap
                       THEN materialMap[faces[k].materialName] ELSE 0]]
    /\ pc' = "sphere"
    /\ UNCHANGED << vertices, normals, textureCoords, facesCap, materials,
                    materialMap, boundSphere, vertexType, flags, parsed, i,
                    stdout, outputFile, pre >>

GenerateBoundingSphere ==
    /\ pc = "sphere"
    /\ boundSphere' = RitterBoundingSphere(vertices)
    /\ pc' = "dedupe"
    /\ UNCHANGED << store, materials, materialMap, vertexType, flags, parsed, i,
                    stdout, outputFile, pre >>

\* if *dPtr { DeDupe(0.0001, 0.00001, 0.00001) }
DeDupeStage ==
    /\ pc = "dedupe"
    /\ IF dPtr
       THEN LET r == DeDupe(vertices, normals, textureCoords, faces)
            IN  /\ pre' = Snapshot
                /\ IF r.panic
                   THEN /\ Panic("DeDupe")
                        /\ UNCHANGED store
                   ELSE /\ vertices' = r.vertices
                        /\ normals' = r.normals
                        /\ textureCoords' = r.textureCoords
                        /\ faces' = r.faces
                        /\ stdout' = Append(stdout,
                                       << "Removed", r.dupeV, r.dupeN, r.dupeU >>)
                        /\ pc' = "stride1"
                        /\ UNCHANGED facesCap
       ELSE /\ pc' = "stride1"
            /\ UNCHANGED << store, stdout, pre >>
    /\ UNCHANGED << materials, materialMap, boundSphere, vertexType, flags,
                    parsed, i, outputFile >>

\* Sum over the corners, in order, of |v - previous v|, from faces[0].v[0].
RECURSIVE StrideSum(_, _, _, _)
StrideSum(fs, k, l, cur) ==
    IF k > Len(fs) THEN 0
    ELSE IF l > fs[k].edges THEN StrideSum(fs, k + 1, 1, cur)
    ELSE Abs(fs[k].v[l] - cur) + StrideSum(fs, k, l + 1, fs[k].v[l])

\* "Total vertex stride distance": reads faces[0].v[0] first.
StrideDistance(here, next) ==
    /\ pc = here
    /\ IF Len(faces) = 0
       THEN Panic("main")
       ELSE /\ pc' = next
            /\ stdout' = Append(stdout,
                           << "Total vertex stride distance",
                              StrideSum(faces, 1, 1, faces[1].v[1]) >>)
    /\ UNCHANGED << store, materials, materialMap, boundSphere, vertexType,
                    flags, parsed, i, outputFile, pre >>

StrideBefore == StrideDistance("stride1", "optimise")

StrideAfter == StrideDistance("stride2", "write")

\* if *moPtr { OptimiseMesh() }
OptimiseStage ==
    /\ pc = "optimise"
    /\ IF moPtr
       THEN \E u \in UndefinedConversions :
              \E sorted \in SortFunc(WithMortonCodes(vertices, faces,
                                                     boundSphere, u)) :
                LET r == RebuildArrays(vertices, normals, textureCoords, sorted)
                IN  /\ pre' = Snapshot
                    /\ IF r.panic
                       THEN /\ Panic("OptimiseMesh")
                            /\ UNCHANGED store
                       ELSE /\ vertices' = r.vertices
                            /\ normals' = r.normals
                            /\ textureCoords' = r.textureCoords
                            /\ faces' = r.faces
                            /\ pc' = "stride2"
                            /\ UNCHANGED << facesCap, stdout >>
       ELSE /\ pc' = "stride2"
            /\ UNCHANGED << store, stdout, pre >>
    /\ UNCHANGED << materials, materialMap, boundSphere, vertexType, flags,
                    parsed, i, outputFile >>

WriteOutputStage ==
    /\ pc = "write"
    /\ LET r == WriteOutput(vertices, normals, textureCoords, faces, materials,
                            vertexType, boundSphere, lePtr)
       IN  IF r.panic
           THEN /\ Panic("WriteOutput")
                /\ outputFile' = FlushedPrefix(r.bytes)
           ELSE /\ pc' = "done"
                /\ outputFile' = r.bytes
                /\ stdout' = Append(stdout, << "Done." >>)
    /\ UNCHANGED << store, materials, materialMap, boundSphere, vertexType,
                    flags, parsed, i, pre >>

Next ==
    \/ ValidateFace
    \/ ResolveMaterials
    \/ GenerateBoundingSphere
    \/ DeDupeStage
    \/ StrideBefore
    \/ OptimiseStage
    \/ StrideAfter
    \/ WriteOutputStage

---------------------------------------------------------------------------
(* Input files *)

SeqsOf(S, lo, hi) == UNION {[1 .. n -> S] : n \in lo .. hi}

\* Material files: none, or one material "m0" with a texture name.
NoMaterials == << >>

OneMaterial == << Material("m0", << 116, 46, 112, 110, 103 >>) >>

\* Most entries per attribute class in the files with near duplicates.
MaxEntries == 3

\* Positions for near duplicates.  Read as normals or texture coordinates
\* (the first two components, in units of 2^-17 against a tolerance of
\* 1e-5 = 1.31 units) the first three are a chain: each is within tolerance
\* of the next, the first is not within tolerance of the third.  Read as
\* vertices, two entries are within 0.0001 exactly when they are equal.
Offsets == {<< 0, 0, 0 >>, << 1, 0, 0 >>, << 2, 0, 0 >>, << 1, 2, 0 >>}

\* Which of the normals and the texture coordinates a file has: both,
\* the normals only, or neither.
Presences == {<< TRUE, TRUE >>, << TRUE, FALSE >>, << FALSE, FALSE >>}

\* One triangle, its corner indices in non-decreasing order, over up to
\* MaxEntries entries at Offsets.
DeDupeFiles ==
    {ParsedStore(pts, << idx >>, has[1], has[2], OneMaterial, "m0") :
        << pts, idx, has >> \in
            UNION {{<< p, t, h >> :
                      p \in [1 .. n -> Offsets],
                      t \in {c \in [1 .. 3 -> 0 .. n - 1] :
                                c[1] <= c[2] /\ c[2] <= c[3]},
                      h \in Presences} : n \in 1 .. MaxEntries}}

\* -d given, -mo not.
InitDeDupe ==
    \E sc \in DeDupeFiles : InitWith(sc, 0, TRUE, FALSE, TRUE)

\* Most entries per attribute class, and most faces, in the files for the
\* cache optimisation.
MaxOptEntries == 4

MaxOptFaces == 2

\* Entry k (0-based) sits at corner k of a cube of side 2: no two entries
\* are within tolerance in any class.
OptPoint(k) == << 2 * (k % 2), 2 * ((k \div 2) % 2), 2 * (k \div 4) >>

\* The corner triples over entries 0 .. m - 1: all of them, and those
\* with three corners on one entry or on three entries in a row.
Triples(m) == [1 .. 3 -> 0 .. m - 1]

PlainTriples(m) ==
    {<< a, a, a >> : a \in 0 .. m - 1}
      \cup {<< a, (a + 1) % m, (a + 2) % m >> : a \in 0 .. m - 1}

\* Up to MaxOptFaces triangles over 3 entries (the first any triple, the
\* others plain), or one triangle over up to MaxOptEntries entries; every
\* class present or only vertices; -mo given.
OptimiseFiles ==
    {ParsedStore([k \in 1 .. n |-> OptPoint(k - 1)], idx, has, has,
                 OneMaterial, "m0") :
        << n, idx, has >> \in
            UNION {{<< m, << t >> \o r, a >> :
                      t \in Triples(m),
                      r \in SeqsOf(PlainTriples(m), 0,
                                   IF m = 3 THEN MaxOptFaces - 1 ELSE 0),
                      a \in BOOLEAN} : m \in 3 .. MaxOptEntries}}

InitOptimise ==
    \E sc \in OptimiseFiles : InitWith(sc, 0, FALSE, TRUE, TRUE)

\* The unit cube: 8 vertices, 6 quads, no vn, vt or usemtl lines.
CubeFile ==
    ParsedStore([k \in 1 .. 8 |->
                    << (k - 1) % 2, ((k - 1) \div 2) % 2, (k - 1) \div 4 >>],
                << << 0, 2, 3, 1 >>, << 4, 5, 7, 6 >>, << 0, 1, 5, 4 >>,
                   << 2, 6, 7, 3 >>, << 0, 4, 6, 2 >>, << 1, 3, 7, 5 >> >>,
                FALSE, FALSE, NoMaterials, "")

InitCube ==
    \E q \in 0 .. 3 : \E d \in BOOLEAN : \E mo \in BOOLEAN : \E le \in BOOLEAN :
        InitWith(CubeFile, q, d, mo, le)

\* slices.SortFunc leaves insertion sort for pdqsort above 12 elements:
\* the fewest faces whose sort may reorder equal elements.
FewestForPdqsort == 12 + 1

\* FewestForPdqsort triangles, face m with all three corners on one
\* vertex of a row along X, so that its centroid is that vertex: the first
\* two faces sit on vertex first, the others on the other vertices in
\* ascending or descending order.  Every class is present.
SortFile(first, ascending) ==
    LET n == FewestForPdqsort - 1
        rest == [m \in 1 .. n - 1 |->
                    LET x == IF ascending THEN m - 1 ELSE n - 1 - m
                    IN  IF x >= first THEN x + 1 ELSE x]
        on == << first, first >> \o rest
    IN  ParsedStore([k \in 1 .. n |-> << k - 1, 0, 0 >>],
                    [m \in 1 .. n + 1 |-> << on[m], on[m], on[m] >>],
                    TRUE, TRUE, OneMaterial, "m0")

InitSort ==
    \E first \in 0 .. FewestForPdqsort - 2 : \E ascending \in BOOLEAN :
      \E le \in BOOLEAN :
        InitWith(SortFile(first, ascending), 0, FALSE, TRUE, le)

\* Most faces in the files with quads.
MaxQuadFaces == 3

\* Vertex positions for the quads, 0-based: the corners of a square in the
\* plane z = 0, a point inside it, and a point above one corner.
QuadPoints ==
    << << 0, 0, 0 >>, << 4, 0, 0 >>, << 4, 4, 0 >>, << 0, 4, 0 >>,
       << 1, 1, 0 >>, << 0, 4, 3 >> >>

\* Face lines over them: the square (planar, convex), a dart (planar, not
\* convex), a bent quad (not planar), and a triangle.
QuadShapes ==
    {<< 0, 1, 2, 3 >>, << 0, 1, 4, 3 >>, << 0, 1, 2, 5 >>, << 0, 1, 2 >>}

\* The normal and the texture coordinate a corner on vertex x refers to,
\* as in "f 1/2/7 ...": indices that differ from class to class.
NormalOf(x) == Len(QuadPoints) - 1 - x

TexCoordOf(x) == (x + 1) % Len(QuadPoints)

\* What the file says besides vertices and vertex indices:
\*   "full"   vn, vt and two materials, used by the faces in turn;
\*   "bare"   nothing: no vn, no vt, no mtllib, no usemtl;
\*   "stray"  vn, vt and one material, and a usemtl of another name.
FileKinds == {"full", "bare", "stray"}

QuadFile(idx, kind) ==
    LET n == Len(QuadPoints)
        has == kind # "bare"
    IN  [vertices |-> [k \in 1 .. n |->
                          Vertex(QuadPoints[k][1], QuadPoints[k][2],
                                 QuadPoints[k][3], k - 1)],
         normals |-> IF has
                     THEN [k \in 1 .. n |-> Normal(3 * k, 5 * k, k - 1)]
                     ELSE << >>,
         textureCoords |-> IF has
                           THEN [k \in 1 .. n |->
                                    TextureCoord(7 * k, 3 * k, k - 1)]
                           ELSE << >>,
         faces |-> [m \in 1 .. Len(idx) |->
                      Face(idx[m],
                           IF has
                           THEN [l \in 1 .. Len(idx[m]) |-> NormalOf(idx[m][l])]
                           ELSE << >>,
                           IF has
                           THEN [l \in 1 .. Len(idx[m]) |->
                                    TexCoordOf(idx[m][l])]
                           ELSE << >>,
                           CASE kind = "full" ->
                                  IF m % 2 = 1 THEN "m1" ELSE "m0"
                             [] kind = "bare" -> ""
                             [] kind = "stray" -> "zz",
                           m - 1)],
         materials |-> CASE kind = "full" ->
                              << Material("m0", << >>),
                                 Material("m1", << 116, 46, 112, 110, 103 >>) >>
                         [] kind = "bare" -> NoMaterials
                         [] kind = "stray" -> OneMaterial]

InitQuad ==
    \E idx \in SeqsOf(QuadShapes, 1, MaxQuadFaces) : \E kind \in FileKinds :
      \E q \in 0 .. 3 :
        InitWith(QuadFile(idx, kind), q, FALSE, FALSE, TRUE)

\* The files with quads under -q 1, with and without -d and -mo.
InitAbort ==
    \E idx \in SeqsOf(QuadShapes, 1, MaxQuadFaces) : \E kind \in FileKinds :
      \E d \in BOOLEAN : \E mo \in BOOLEAN :
        InitWith(QuadFile(idx, kind), 1, d, mo, TRUE)

\* Most vertices in the files for the bounding sphere.
MaxSpherePoints == 4

\* Vertex positions for the bounding sphere: three in the plane z = 0 and
\* two off it.
SpherePoints ==
    << << 0, 0, 0 >>, << 6, 0, 0 >>, << 0, 6, 0 >>, << 3, 5, 2 >>,
       << 1, 4, 6 >> >>

\* A file of up to MaxSpherePoints vertices in any order, repeats
\* allowed, with one face on the first vertex or with vertices only; no
\* face when there is no vertex.
SphereFile(s, withFace) ==
    ParsedStore([k \in 1 .. Len(s) |-> SpherePoints[s[k]]],
                IF s = << >> \/ ~withFace THEN << >>
                ELSE << << 0, 0, 0 >> >>,
                TRUE, TRUE, NoMaterials, "")

InitSphere ==
    \E s \in SeqsOf(1 .. Len(SpherePoints), 0, MaxSpherePoints) :
      \E withFace \in BOOLEAN :
        InitWith(SphereFile(s, withFace), 0, FALSE, FALSE, TRUE)

\* Most faces in the files with quads on repeated corners.
MaxFakeFaces == 2

\* A square and, as a fifth vertex, a second "v 4 4 0".
FakePoints ==
    << << 0, 0, 0 >>, << 4, 0, 0 >>, << 4, 4, 0 >>, << 0, 4, 0 >>,
       << 4, 4, 0 >> >>

\* The square; a quad that names vertex 2 twice; a quad whose last corner
\* is the second vertex at (4,4,0); a triangle.
FakeShapes ==
    {<< 0, 1, 2, 3 >>, << 0, 1, 2, 2 >>, << 0, 1, 2, 4 >>, << 0, 1, 2 >>}

InitFake ==
    \E idx \in SeqsOf(FakeShapes, 1, MaxFakeFaces) : \E q \in 0 .. 3 :
      InitWith(ParsedStore(FakePoints, idx, TRUE, TRUE, OneMaterial, "m0"),
               q, FALSE, FALSE, TRUE)

\* Vertex positions for the convexity test: a square in the plane z = 0
\* with its centre, and two points above one of its sides.
ConvexPoints ==
    << << 0, 0, 0 >>, << 2, 0, 0 >>, << 2, 2, 0 >>, << 0, 2, 0 >>,
       << 1, 1, 0 >>, << 0, 0, 2 >>, << 0, 2, 2 >> >>

\* One quad on any four of the vertices, repeats allowed, under -q 1.
InitConvex ==
    \E idx \in [1 .. 4 -> 0 .. Len(ConvexPoints) - 1] :
      InitWith(ParsedStore(ConvexPoints, << idx >>, TRUE, TRUE,
                           OneMaterial, "m0"),
               1, FALSE, FALSE, TRUE)

\* Half the side of the cube of vertex positions for the Morton codes.
MortonReach == 3

\* Two vertices, P anywhere in a cube of side 2 * MortonReach and Q at its
\* centre, and three triangles: on P alone, on Q alone, and on P, P, Q.
\* The bounding sphere has the diameter PQ, so the three centroids
\* quantise to values that follow the direction of PQ; P = Q gives a
\* sphere of radius 0.
MortonFile(p) ==
    ParsedStore(<< p, << MortonReach, MortonReach, MortonReach >> >>,
                << << 0, 0, 0 >>, << 1, 1, 1 >>, << 0, 0, 1 >> >>,
                TRUE, TRUE, OneMaterial, "m0")

InitMorton ==
    \E p \in [1 .. 3 -> 0 .. 2 * MortonReach] :
      InitWith(MortonFile(p), 0, FALSE, TRUE, TRUE)

\* Most faces in the files for the termination of the validation loop.
MaxLoopFaces == 2

\* Files of up to MaxLoopFaces faces, with and without normal and uv
\* indices, under every -q.
InitLoop ==
    \E idx \in SeqsOf(QuadShapes, 1, MaxLoopFaces) :
      \E kind \in {"full", "bare"} : \E q \in 0 .. 3 :
        InitWith(QuadFile(idx, kind), q, FALSE, FALSE, TRUE)

Init == InitDeDupe \/ InitOptimise \/ InitCube \/ InitSort \/ InitQuad
          \/ InitAbort \/ InitSphere \/ InitFake \/ InitConvex
          \/ InitMorton \/ InitLoop

Spec == Init /\ [][Next]_vars

SpecDeDupe == InitDeDupe /\ [][Next]_vars

SpecOptimise == InitOptimise /\ [][Next]_vars

SpecCube == InitCube /\ [][Next]_vars

SpecSort == InitSort /\ [][Next]_vars

SpecQuad == InitQuad /\ [][Next]_vars

\* The loop body is straight-line code on the one goroutine of main and
\* waits for nothing: an iteration that can run does run.
SpecLoop == InitLoop /\ [][Next]_vars /\ WF_vars(ValidateFace)

SpecAbort == InitAbort /\ [][Next]_vars

SpecSphere == InitSphere /\ [][Next]_vars

SpecFake == InitFake /\ [][Next]_vars

SpecConvex == InitConvex /\ [][Next]_vars

SpecMorton == InitMorton /\ [][Next]_vars

---------------------------------------------------------------------------
(* Properties *)

LastPrinted == IF stdout = << >> THEN << >> ELSE stdout[Len(stdout)]

\* WriteOutput has been called, and has returned or has panicked.
WriteOutputRan ==
    pc = "done" \/ (pc = "panic" /\ LastPrinted = << "panic", "WriteOutput" >>)

SomeFaceLacksIndices ==
    \E k \in 1 .. Len(faces) : faces[k].n = << >> \/ faces[k].uv = << >>

\* A face record in which an index array of length zero takes no bytes.
RecordOmittingAbsent(f, le) ==
    << f.edges >> \o IndexBytes(f.v, f.edges, le)
      \o (IF f.n = << >> THEN << >> ELSE IndexBytes(f.n, f.edges, le))
      \o (IF f.uv = << >> THEN << >> ELSE IndexBytes(f.uv, f.edges, le))
      \o U32(f.materialID, le)

\* C1: when WriteOutput is given faces whose normal or uv index arrays have
\* length zero it does not fail, and the file holds, between the attribute
\* arrays and the materials, one record per face in which an array of
\* length zero is left out: the edge count, the vertex indices, the indices
\* of the arrays present, the materialID.
C1_AbsentIndexArraysOmitted ==
    (WriteOutputRan /\ SomeFaceLacksIndices) =>
        /\ pc = "done"
        /\ outputFile =
             FrontBytes(vertices, normals, textureCoords, faces, materials,
                        vertexType, boundSphere, lePtr)
               \o Flatten([k \in 1 .. Len(faces) |->
                              RecordOmittingAbsent(faces[k], lePtr)],
                          Len(faces))
               \o MaterialsBytes(materials, lePtr)

\* WriteOutput has run on a triangle that has vertex indices only.
C1_Reached ==
    /\ WriteOutputRan
    /\ \E k \in 1 .. Len(faces) :
         faces[k].edges = 3 /\ faces[k].n = << >> /\ faces[k].uv = << >>

\* C2: the unit cube under -q 1 validates with no error: each of its six
\* quads passes ValidateQuad and the run is not aborted by the validation.
C2_CubeValidates ==
    (qPtr = 1 /\ pc # "validate") =>
        /\ pc # "aborted"
        /\ \A k \in 1 .. Len(faces) : ValidateQuad(vertices, faces[k]) = "ok"

\* The validation of the cube under -q 1 has ended, one way or the other.
C2_Reached ==
    /\ qPtr = 1
    /\ Len(vertices) = 8
    /\ Len(faces) = 6
    /\ pc \in {"aborted", "sphere"}

\* DeDupe has just returned; pre is the store it was called on.
DeDupeReturned == dPtr /\ pc = "stride1"

\* The array of a class in a store (a record or the state).
ArrayOf(cls, st) ==
    IF cls = "v" THEN st.vertices
    ELSE IF cls = "n" THEN st.normals
    ELSE st.textureCoords

NoTwoClose(cls, arr) ==
    \A a \in 1 .. Len(arr) : \A b \in a + 1 .. Len(arr) :
        ~Close(cls, arr[a], arr[b])

\* The entries of arr before DeDupe that are still in now.
Survives(now, e) == \E a \in 1 .. Len(now) : now[a].id = e.id

\* C3: after DeDupe no two surviving vertices are within the vertex
\* tolerance of each other: of two vertices of the input within the
\* tolerance, the later one has been removed from the array.
C3_NoTwoVerticesClose ==
    DeDupeReturned =>
        /\ NoTwoClose("v", vertices)
        /\ \A a \in 1 .. Len(pre.vertices) :
             \A b \in a + 1 .. Len(pre.vertices) :
               Close("v", pre.vertices[a], pre.vertices[b])
                   => ~Survives(vertices, pre.vertices[b])

\* DeDupe has returned from a store with two vertices at one position.
C3_Reached ==
    /\ DeDupeReturned
    /\ ~NoTwoClose("v", pre.vertices)

\* C4: after DeDupe no two surviving normals are within the tolerance on
\* every axis, and no two surviving texture coordinates are within the
\* tolerance on both U and V.
C4_NoTwoNormalsOrUVsClose ==
    DeDupeReturned =>
        /\ NoTwoClose("n", normals)
        /\ NoTwoClose("uv", textureCoords)

\* arr holds a chain: a within tolerance of b, b of c, a not of c.
HasChain(cls, arr) ==
    \E a, b, c \in 1 .. Len(arr) :
        /\ a < b /\ b < c
        /\ Close(cls, arr[a], arr[b])
        /\ Close(cls, arr[b], arr[c])
        /\ ~Close(cls, arr[a], arr[c])

\* DeDupe has returned from normals and texture coordinates that held a
\* chain, and has removed some.
C4_Reached ==
    /\ DeDupeReturned
    /\ HasChain("n", pre.normals)
    /\ HasChain("uv", pre.textureCoords)
    /\ Len(normals) < Len(pre.normals)
    /\ Len(textureCoords) < Len(pre.textureCoords)

IndicesOf(cls, f) == IF cls = "v" THEN f.v ELSE IF cls = "n" THEN f.n ELSE f.uv

InRange(cls, st) ==
    \A k \in 1 .. Len(st.faces) :
        \A l \in 1 .. Len(IndicesOf(cls, st.faces[k])) :
            IndicesOf(cls, st.faces[k])[l] < Len(ArrayOf(cls, st))

\* Index new designates, in the array now, what index old of the array
\* before stands for after the merges: the entry itself if it survives,
\* else a surviving earlier entry within tolerance of it.
DesignatesSurvivorOf(cls, before, now, old, new) ==
    /\ new < Len(now)
    /\ LET e == before[old + 1]
           s == now[new + 1]
       IN  IF Survives(now, e) THEN s.id = e.id
           ELSE s.id < e.id /\ Close(cls, before[s.id + 1], e)

RefsFollowMerges(cls, before, now) ==
    \A k \in 1 .. Len(faces) :
        /\ Len(IndicesOf(cls, faces[k])) = Len(IndicesOf(cls, before.faces[k]))
        /\ \A l \in 1 .. Len(IndicesOf(cls, faces[k])) :
             DesignatesSurvivorOf(cls, ArrayOf(cls, before), now,
                                  IndicesOf(cls, before.faces[k])[l],
                                  IndicesOf(cls, faces[k])[l])

\* C5: if every face index was in range before DeDupe, then after it every
\* vertex, normal and uv index of every face is in range of its array and
\* designates the entry its original entry was merged into, or the original
\* entry if that survived.
C5_IndicesFollowMerges ==
    (DeDupeReturned /\ InRange("v", pre) /\ InRange("n", pre)
       /\ InRange("uv", pre)) =>
        /\ Len(faces) = Len(pre.faces)
        /\ RefsFollowMerges("v", pre, vertices)
        /\ RefsFollowMerges("n", pre, normals)
        /\ RefsFollowMerges("uv", pre, textureCoords)

\* DeDupe has returned, one corner referred to a normal that was merged
\* away, another to a normal that survived at a lower index.
C5_Reached ==
    /\ DeDupeReturned
    /\ \E k \in 1 .. Len(faces) : \E l, m \in 1 .. 3 :
         /\ Len(faces[k].n) = 3
         /\ ~Survives(normals, pre.normals[pre.faces[k].n[l] + 1])
         /\ Survives(normals, pre.normals[pre.faces[k].n[m] + 1])
         /\ faces[k].n[m] < pre.faces[k].n[m]

\* C6: for each class the count DeDupe reports as removed is the number of
\* entries removed: length after = length before - reported count.
C6_ReportedCountsAreRemovals ==
    DeDupeReturned =>
        /\ LastPrinted[1] = "Removed"
        /\ Len(vertices) = Len(pre.vertices) - LastPrinted[2]
        /\ Len(normals) = Len(pre.normals) - LastPrinted[3]
        /\ Len(textureCoords) = Len(pre.textureCoords) - LastPrinted[4]

\* DeDupe has returned and has removed a normal.
C6_Reached ==
    /\ DeDupeReturned
    /\ Len(normals) < Len(pre.normals)

\* OptimiseMesh has just returned; pre is the store it was called on.
OptimiseReturned == moPtr /\ pc = "stride2"

Classes == {"v", "n", "uv"}

\* The indices of one class in the order a walk over the faces, corner by
\* corner, meets them.
Walk(cls, fs) ==
    Flatten([k \in 1 .. Len(fs) |->
                SubSeq(IndicesOf(cls, fs[k]), 1, fs[k].edges)], Len(fs))

\* Every index of the walk has been met before or is the number of
\* distinct indices met before it: the k-th distinct index is k.
FirstReferenceOrder(w) ==
    \A p \in 1 .. Len(w) :
        LET seen == {w[q] : q \in 1 .. p - 1}
        IN  w[p] \in seen \/ w[p] = Cardinality(seen)

\* C7: after OptimiseMesh, in each of the vertex, normal and uv index
\* spaces, the k-th distinct index met when walking the faces in their new
\* order corner by corner is k (0, 1, 2, ...).
C7_FirstReferenceOrder ==
    OptimiseReturned =>
        \A cls \in Classes : FirstReferenceOrder(Walk(cls, faces))

\* OptimiseMesh has returned from faces whose walk was not in
\* first-reference order.
C7_Reached ==
    /\ OptimiseReturned
    /\ ~FirstReferenceOrder(Walk("v", pre.faces))

\* C8: OptimiseMesh leaves the lengths of the vertex, normal and texture
\* coordinate arrays as they were, also when some entry is referenced by
\* no face.
C8_ArrayLengthsUnchanged ==
    OptimiseReturned =>
        /\ Len(vertices) = Len(pre.vertices)
        /\ Len(normals) = Len(pre.normals)
        /\ Len(textureCoords) = Len(pre.textureCoords)

Referenced(cls, st) ==
    {IndicesOf(cls, st.faces[k])[l] :
        k \in 1 .. Len(st.faces), l \in 1 .. 3}

\* OptimiseMesh has returned from a store with a vertex no face refers to.
C8_Reached ==
    /\ OptimiseReturned
    /\ \E x \in 0 .. Len(pre.vertices) - 1 : x \notin Referenced("v", pre)

\* The face of fs that has history id d.
FaceWithId(fs, d) == fs[CHOOSE k \in 1 .. Len(fs) : fs[k].id = d]

\* C9: after OptimiseMesh the faces are the faces before it in another
\* order (each face once, with its edge count and material), and the
\* Morton codes of consecutive faces are non-decreasing.
C9_FacesSortedPermutation ==
    OptimiseReturned =>
        /\ Len(faces) = Len(pre.faces)
        /\ \A k \in 1 .. Len(pre.faces) :
             /\ Cardinality({m \in 1 .. Len(faces) :
                               faces[m].id = pre.faces[k].id}) = 1
             /\ LET f == FaceWithId(faces, pre.faces[k].id)
                IN  /\ f.edges = pre.faces[k].edges
                    /\ f.materialID = pre.faces[k].materialID
                    /\ f.materialName = pre.faces[k].materialName
                    /\ \E u \in UndefinedConversions :
                         f.mortonCode = FaceMortonCode(pre.vertices,
                                            pre.faces[k], boundSphere, u)
        /\ \A k \in 1 .. Len(faces) - 1 :
             faces[k].mortonCode <= faces[k + 1].mortonCode

\* OptimiseMesh has returned and has moved a face forward.
C9_Reached ==
    /\ OptimiseReturned
    /\ Len(faces) = 2
    /\ faces[1].id = 1
    /\ faces[1].mortonCode < faces[2].mortonCode

\* C10: the face sort is stable: two faces of equal Morton code are, after
\* OptimiseMesh, in the order they had before it.
C10_SortStable ==
    OptimiseReturned =>
        \A a \in 1 .. Len(faces) : \A b \in a + 1 .. Len(faces) :
            faces[a].mortonCode = faces[b].mortonCode
                => faces[a].id < faces[b].id

\* OptimiseMesh has returned from more than 12 faces, two of them of
\* equal Morton code.
C10_Reached ==
    /\ OptimiseReturned
    /\ Len(faces) > 12
    /\ \E a \in 1 .. Len(faces) : \E b \in a + 1 .. Len(faces) :
         faces[a].mortonCode = faces[b].mortonCode

\* The corners of a face in one class: the first `edges` indices.
Corners(cls, f) == SubSeq(IndicesOf(cls, f), 1, f.edges)

Pick(s, a, b, c) == << s[a], s[b], s[c] >>

\* This step is a call of ConvertQuadToTriangles on faces[i], a quad with
\* normal and uv indices.
ConvertsQuad ==
    /\ pc = "validate"
    /\ i < Len(faces)
    /\ faces' # faces
    /\ Len(faces[i + 1].n) = 4
    /\ Len(faces[i + 1].uv) = 4

Invalid(f) == f.edges = 4 /\ ValidateQuad(vertices, f) # "ok"

InvalidParsed == {k \in 1 .. Len(parsed) : Invalid(parsed[k])}

FirstInvalid == CHOOSE k \in InvalidParsed : \A m \in InvalidParsed : k <= m

NothingRanAfterValidation ==
    /\ faces = parsed
    /\ boundSphere = [center |-> << 0, 0, 0 >>, radius |-> 0]
    /\ pre.vertices = << >> /\ pre.faces = << >>
    /\ outputFile = << >>
    /\ \A k \in 1 .. Len(stdout) :
         stdout[k][1] \in {"Fake Quad", "Error validating quad face"}

\* C12: under -q 1, when a quad fails ValidateQuad the run ends at that
\* face: the loop is at or before the first such face, or the run has
\* been aborted there; no later face is processed, DeDupe and OptimiseMesh
\* have not run and WriteOutput has not been called.
C12_Mode1AbortsAtFirstInvalid ==
    (qPtr = 1 /\ InvalidParsed # {}) =>
        /\ \/ pc = "validate" /\ i < FirstInvalid
           \/ pc = "aborted" /\ i = FirstInvalid - 1
        /\ NothingRanAfterValidation

\* The run was aborted under -q 1 with -d and -mo at a bent quad that
\* came after a quad that passed.
C12_Reached ==
    /\ pc = "aborted"
    /\ dPtr /\ moPtr
    /\ i > 0
    /\ parsed[1].edges = 4
    /\ LastPrinted = << "Error validating quad face",
                        "quad face is not planar" >>

SameCorners(f, g) ==
    /\ f.edges = g.edges
    /\ \A cls \in Classes : IndicesOf(cls, f) = IndicesOf(cls, g)

ConvertPanicked == LastPrinted = << "panic", "ConvertQuadToTriangles" >>

\* C13: under -q 2 the validation loop always ends and the run goes on to
\* the later stages, neither aborted nor stopped; by then every quad that
\* failed ValidateQuad is a triangle on its first three corners with one
\* triangle appended for it, and every other face is as parsed.
C13_Mode2RepairsAndContinues ==
    (qPtr = 2 /\ pc # "validate") =>
        /\ pc # "aborted"
        /\ ~ConvertPanicked
        /\ Len(faces) = Len(parsed) + Cardinality(InvalidParsed)
        /\ \A k \in 1 .. Len(parsed) :
             IF k \in InvalidParsed
             THEN /\ faces[k].edges = 3
                  /\ Corners("v", faces[k]) = Pick(parsed[k].v, 1, 2, 3)
             ELSE SameCorners(faces[k], parsed[k])

\* Under -q 2 the run stopped inside ConvertQuadToTriangles, at a dart
\* that came after a quad that passed, in a file without vn and vt lines.
C13_Reached ==
    /\ qPtr = 2
    /\ pc = "panic"
    /\ ConvertPanicked
    /\ i = 1
    /\ parsed[1].v = << 0, 1, 2, 3 >>
    /\ parsed[2].v = << 0, 1, 4, 3 >>
    /\ parsed[2].n = << >>

QuadsParsed == {k \in 1 .. Len(parsed) : parsed[k].edges = 4}

Field(file, k) == SubSeq(file, 4 * k + 1, 4 * k + 4)

\* The four bytes of a uint32 in the byte order chosen.
Word(x) ==
    LET b0 == x % 256
        b1 == (x \div 256) % 256
        b2 == (x \div 65536) % 256
        b3 == (x \div 16777216) % 256
    IN  IF lePtr THEN << b0, b1, b2, b3 >> ELSE << b3, b2, b1, b0 >>

\* The four bytes of a float32 in the byte order chosen.
Float(x) ==
    LET b(k) == [f32 |-> x, byte |-> k]
    IN  IF lePtr THEN << b(0), b(1), b(2), b(3) >>
        ELSE << b(3), b(2), b(1), b(0) >>

HasHeader(file) ==
    /\ Len(file) >= 4 * 13
    /\ Field(file, 0) = << 77, 83, 72, 88 >>
    /\ Field(file, 1) = Word(1)
    /\ Field(file, 2) = Word(Len(vertices))
    /\ Field(file, 3) = Word(Len(normals))
    /\ Field(file, 4) = Word(0)
    /\ Field(file, 5) = Word(Len(textureCoords))
    /\ Field(file, 6) = Word(Len(faces))
    /\ Field(file, 7) = Word(Len(materials))
    /\ Field(file, 8) = Word(vertexType)
    /\ Field(file, 9) = Float(boundSphere.center[1])
    /\ Field(file, 10) = Float(boundSphere.center[2])
    /\ Field(file, 11) = Float(boundSphere.center[3])
    /\ Field(file, 12) = Float(boundSphere.radius)

\* C15: once WriteOutput has run the file begins with 'MSHX', version 1,
\* the counts of vertices, normals, tangents (0), uvs, faces and
\* materials, vertexType and the sphere's centre and radius; with -le and
\* 8 vertices its first bytes are 4D 53 48 58 01 00 00 00 08 00 00 00.
C15_HeaderLayout ==
    WriteOutputRan =>
        /\ HasHeader(outputFile)
        /\ (lePtr /\ Len(vertices) = 8) =>
             SubSeq(outputFile, 1, 12)
               = << 77, 83, 72, 88, 1, 0, 0, 0, 8, 0, 0, 0 >>

\* WriteOutput ran with -le on the cube as parsed, eight vertices and six
\* quads, and left an empty file.
C15_Reached ==
    /\ WriteOutputRan
    /\ lePtr
    /\ Len(vertices) = 8
    /\ Len(faces) = 6
    /\ outputFile = << >>

Triple(a) == Float(a[1]) \o Float(a[2]) \o Float(a[3])

\* The material record as the claim lays it out.
RecordOf(m) ==
    Triple(m.diffuse) \o Triple(m.specular) \o Triple(m.ambient)
      \o Triple(m.transmissive) \o Triple(m.emissive)
      \o Float(m.power) \o Float(m.transparency) \o Float(m.refractivity)
      \o Word(m.illum)
      \o Float(m.roughness) \o Float(m.metallic) \o Float(m.sheen)
      \o Float(m.clearcoat_thickness) \o Float(m.clearcoat_roughness)
      \o Float(m.aniso) \o Float(m.aniso_rotation)
      \o Word(Len(m.texture)) \o m.texture

RECURSIVE RecordsFrom(_)
RecordsFrom(k) ==
    IF k > Len(materials) THEN << >>
    ELSE RecordOf(materials[k]) \o RecordsFrom(k + 1)

BeforeMaterials ==
    FrontBytes(vertices, normals, textureCoords, faces, materials,
               vertexType, boundSphere, lePtr)
      \o FacesBytes(faces, 1, lePtr).bytes

---------------------------------------------------------------------------
(* A reader of the documented layout.  It reads the fields in the order   *)
(* of the format description, in one byte order, and stops with           *)
(* ok = FALSE when the file ends inside a field.                           *)

InOrder(b, le) == IF le THEN b ELSE << b[4], b[3], b[2], b[1] >>

\* The uint32 at position pos.
ReadWord(file, pos, le) ==
    LET b == InOrder(SubSeq(file, pos, pos + 3), le)
    IN  b[1] + 256 * b[2] + 65536 * b[3] + 16777216 * b[4]

\* The float32 at position pos: the value whose four bytes these are, in
\* order; any other four bytes are a value of their own.
ReadFloat(file, pos, le) ==
    LET b == InOrder(SubSeq(file, pos, pos + 3), le)
    IN  IF \A k \in 1 .. 4 : b[k] = [f32 |-> b[1].f32, byte |-> k - 1]
        THEN b[1].f32
        ELSE [bytes |-> b]

\* n consecutive uint32 from pos on.
ReadWords(file, pos, n, le) ==
    [k \in 1 .. n |-> ReadWord(file, pos + 4 * (k - 1), le)]

\* n consecutive float32 from pos on.
ReadFloats(file, pos, n, le) ==
    [k \in 1 .. n |-> ReadFloat(file, pos + 4 * (k - 1), le)]

ReadVertex(file, pos, vtype, le) ==
    ReadFloats(file, pos, IF vtype = 1 THEN 7 ELSE 3, le)

\* The face records from pos on, count of them: [ok, faces, pos].  hasN,
\* hasT and hasUV tell whether normalCount, tangentCount and uvCount are
\* not 0.
RECURSIVE ReadFaces(_, _, _, _, _, _, _)
ReadFaces(file, pos, count, hasN, hasT, hasUV, le) ==
    IF count = 0 THEN [ok |-> TRUE, faces |-> << >>, pos |-> pos]
    ELSE IF pos > Len(file) THEN [ok |-> FALSE, faces |-> << >>, pos |-> pos]
    ELSE LET e == file[pos]
             arrays == 1 + (IF hasN THEN 1 ELSE 0) + (IF hasT THEN 1 ELSE 0)
                         + (IF hasUV THEN 1 ELSE 0)
             size == 1 + 4 * e * arrays + 4
             pN == pos + 1 + 4 * e
             pT == pN + (IF hasN THEN 4 * e ELSE 0)
             pUV == pT + (IF hasT THEN 4 * e ELSE 0)
         IN  IF pos + size - 1 > Len(file)
             THEN [ok |-> FALSE, faces |-> << >>, pos |-> pos]
             ELSE LET f == [edges |-> e,
                            v |-> ReadWords(file, pos + 1, e, le),
                            n |-> IF hasN
                                  THEN ReadWords(file, pN, e, le)
                                  ELSE << >>,
                            uv |-> IF hasUV
                                   THEN ReadWords(file, pUV, e, le)
                                   ELSE << >>,
                            materialID |->
                                ReadWord(file, pos + size - 4, le)]
                      rest == ReadFaces(file, pos + size, count - 1,
                                        hasN, hasT, hasUV, le)
                  IN  [ok |-> rest.ok, faces |-> << f >> \o rest.faces,
                       pos |-> rest.pos]

\* The material records from pos on, count of them: [ok, materials, pos].
\* A record is 26 fields, the length of the texture name and the name.
RECURSIVE ReadMaterials(_, _, _, _)
ReadMaterials(file, pos, count, le) ==
    IF count = 0 THEN [ok |-> TRUE, materials |-> << >>, pos |-> pos]
    ELSE IF pos + 4 * 27 - 1 > Len(file)
    THEN [ok |-> FALSE, materials |-> << >>, pos |-> pos]
    ELSE LET fl(k) == ReadFloat(file, pos + 4 * k, le)
             tri(k) == << fl(k), fl(k + 1), fl(k + 2) >>
             len == ReadWord(file, pos + 4 * 26, le)
             next == pos + 4 * 27 + len
         IN  IF next - 1 > Len(file)
             THEN [ok |-> FALSE, materials |-> << >>, pos |-> pos]
             ELSE LET m == [diffuse |-> tri(0), specular |-> tri(3),
                            ambient |-> tri(6), transmissive |-> tri(9),
                            emissive |-> tri(12),
                            power |-> fl(15), transparency |-> fl(16),
                            refractivity |-> fl(17),
                            illum |-> ReadWord(file, pos + 4 * 18, le),
                            roughness |-> fl(19), metallic |-> fl(20),
                            sheen |-> fl(21),
                            clearcoat_thickness |-> fl(22),
                            clearcoat_roughness |-> fl(23),
                            aniso |-> fl(24), aniso_rotation |-> fl(25),
                            texture |-> SubSeq(file, pos + 4 * 27, next - 1)]
                      rest == ReadMaterials(file, next, count - 1, le)
                  IN  [ok |-> rest.ok,
                       materials |-> << m >> \o rest.materials,
                       pos |-> rest.pos]

\* The whole file: [ok, vertices, normals, uvs, faces, materials].
ReadFile(file, le) ==
    LET none == [ok |-> FALSE, vertices |-> << >>, normals |-> << >>,
                 uvs |-> << >>, faces |-> << >>, materials |-> << >>]
    IN  IF Len(file) < 4 * 13 \/ SubSeq(file, 1, 4) # << 77, 83, 72, 88 >>
        THEN none
        ELSE
        LET count(k) == ReadWord(file, 4 * k + 1, le)
            vtype == count(8)
            vsize == IF vtype = 1 THEN 28 ELSE 12
            pV == 4 * 13 + 1
            pN == pV + vsize * count(2)
            pT == pN + 12 * count(3)
            pUV == pT + 24 * count(4)
            pF == pUV + 8 * count(5)
        IN  IF count(1) # 1 \/ pF - 1 > Len(file) THEN none
            ELSE
            LET fs == ReadFaces(file, pF, count(6), count(3) # 0,
                                count(4) # 0, count(5) # 0, le)
                ms == ReadMaterials(file, fs.pos, count(7), le)
            IN  IF ~fs.ok \/ ~ms.ok THEN none
                ELSE [ok |-> TRUE,
                      vertices |-> [k \in 1 .. count(2) |->
                          ReadVertex(file, pV + vsize * (k - 1), vtype, le)],
                      normals |-> [k \in 1 .. count(3) |->
                          ReadFloats(file, pN + 12 * (k - 1), 3, le)],
                      uvs |-> [k \in 1 .. count(5) |->
                          ReadFloats(file, pUV + 8 * (k - 1), 2, le)],
                      faces |-> fs.faces,
                      materials |-> ms.materials]

VertexData(p) ==
    << p.X, p.Y, p.Z >>
      \o (IF vertexType = 1 THEN << p.A, p.R, p.G, p.B >> ELSE << >>)

FaceData(f) ==
    [edges |-> f.edges, v |-> Corners("v", f), n |-> Corners("n", f),
     uv |-> Corners("uv", f), materialID |-> f.materialID]

MaterialData(m) ==
    [diffuse |-> m.diffuse, specular |-> m.specular, ambient |-> m.ambient,
     transmissive |-> m.transmissive, emissive |-> m.emissive,
     power |-> m.power, transparency |-> m.transparency,
     refractivity |-> m.refractivity, illum |-> m.illum,
     roughness |-> m.roughness, metallic |-> m.metallic, sheen |-> m.sheen,
     clearcoat_thickness |-> m.clearcoat_thickness,
     clearcoat_roughness |-> m.clearcoat_roughness,
     aniso |-> m.aniso, aniso_rotation |-> m.aniso_rotation,
     texture |-> m.texture]

ReadsBack(r) ==
    /\ r.ok
    /\ r.vertices = [k \in 1 .. Len(vertices) |-> VertexData(vertices[k])]
    /\ r.normals = [k \in 1 .. Len(normals) |->
                       << normals[k].X, normals[k].Y, normals[k].Z >>]
    /\ r.uvs = [k \in 1 .. Len(textureCoords) |->
                   << textureCoords[k].U, textureCoords[k].V >>]
    /\ r.faces = [k \in 1 .. Len(faces) |-> FaceData(faces[k])]
    /\ r.materials = [k \in 1 .. Len(materials) |-> MaterialData(materials[k])]

\* C17: once WriteOutput has run, reading the file back in the byte order
\* it was written in gives the vertices, normals, uvs, faces and
\* materials of the store, with -le and with -be.
C17_RoundTrip == WriteOutputRan => ReadsBack(ReadFile(outputFile, lePtr))

\* WriteOutput ran with -be on the cube as parsed and left a file that
\* cannot be read.
C17_Reached ==
    /\ WriteOutputRan
    /\ ~lePtr
    /\ Len(vertices) = 8
    /\ Len(faces) = 6
    /\ ~ReadFile(outputFile, lePtr).ok

---------------------------------------------------------------------------

MaterialsResolved ==
    pc \in {"sphere", "dedupe", "stride1", "optimise", "stride2", "write",
            "done"}

\* C18: once the material names have been resolved, the materialID of
\* every face is less than the number of materials, also when the file
\* defines no material and when a face names no material or one that
\* was never defined.
C18_MaterialIDInRange ==
    MaterialsResolved =>
        \A k \in 1 .. Len(faces) : faces[k].materialID < Len(materials)

\* The names of a file without materials have been resolved.
C18_Reached ==
    /\ pc = "sphere"
    /\ materials = << >>
    /\ Len(faces) = 2
    /\ \A k \in 1 .. 2 : faces[k].materialName = "" /\ faces[k].materialID = 0

\* Between two stages of main: before the validation loop and after it.
AtStageBoundary == (pc = "validate" /\ i = 0) \/ MaterialsResolved

WellShaped(f) ==
    /\ Len(f.v) = f.edges
    /\ Len(f.n) \in {0, f.edges}
    /\ Len(f.uv) \in {0, f.edges}

\* C19: between two stages every face has as many vertex indices as
\* edges, and as many normal and uv indices as edges or none; so has the
\* face ConvertQuadToTriangles cut down to a triangle, with the face list
\* full or not when the second triangle was appended.
C19_FacesWellShaped ==
    AtStageBoundary => \A k \in 1 .. Len(faces) : WellShaped(faces[k])

\* A file of one quad went through -q 3: the face list was full when the
\* second triangle was appended, and the first triangle has kept four
\* indices of each class.
C19_Reached ==
    /\ pc = "sphere"
    /\ qPtr = 3
    /\ Len(parsed) = 1
    /\ Len(faces) = 2
    /\ faces[1].edges = 3
    /\ Len(faces[1].v) = 4 /\ Len(faces[1].n) = 4 /\ Len(faces[1].uv) = 4

---------------------------------------------------------------------------

SphereGenerated == pc \notin {"validate", "sphere", "aborted"}

\* The position of a vertex in the units of the sphere.
Fixed(p) == << p.X * FixOne, p.Y * FixOne, p.Z * FixOne >>

\* What truncation can take from the sphere: under one unit of the
\* initial radius, and under three units for each point that grew it
\* (the square root, the halved radius and the moved centre).
Rounding == 3 * Len(vertices) + 1

\* C20: the sphere of GenerateBoundingSphere holds every vertex, up to
\* rounding: the distance of each vertex from the centre is at most the
\* radius, also for the vertices the expansion loop passed before it
\* moved the centre; without vertices the sphere is centre (0,0,0),
\* radius 0.
C20_SphereEnclosesPoints ==
    SphereGenerated =>
        /\ \A k \in 1 .. Len(vertices) :
             LET reach == boundSphere.radius + Rounding
             IN  DistSq(boundSphere.center, Fixed(vertices[k])) <= reach * reach
        /\ vertices = << >> =>
             boundSphere = [center |-> << 0, 0, 0 >>, radius |-> 0]

\* The sphere of (0,0,0), (6,0,0), (0,6,0), (3,5,2): it starts on the
\* diameter from (3,5,2) to (0,0,0), centre (1.5, 2.5, 1), passes (0,0,0)
\* and is then grown twice, for (6,0,0) and for (0,6,0).
C20_Reached ==
    /\ SphereGenerated
    /\ [k \in 1 .. Len(vertices) |-> Pos(vertices[k])]
         = << << 0, 0, 0 >>, << 6, 0, 0 >>, << 0, 6, 0 >>, << 3, 5, 2 >> >>
    /\ boundSphere.center
         # << 3 * (FixOne \div 2), 5 * (FixOne \div 2), FixOne >>
    /\ boundSphere.radius > 4 * FixOne

---------------------------------------------------------------------------

\* The corners of quad f are at exactly three positions.
OnThreePositions(f) ==
    f.edges = 4
      /\ Cardinality({Pos(vertices[f.v[l] + 1]) : l \in 1 .. 4}) = 3

\* Face k of the file has been through the body of the validation loop.
Processed(k) == k <= i \/ (pc = "aborted" /\ k = i + 1)

ReportedFake(k) ==
    \E m \in 1 .. Len(stdout) : stdout[m] = << "Fake Quad", k - 1 >>

\* C21: under -q 0, 1 and 2 every quad of the file that has been
\* processed and whose corners are at three positions has been reported
\* as a fake quad; under -q 0 no face has been changed by it; under -q 3
\* nothing is reported.
C21_FakeQuadsReported ==
    /\ qPtr # 3 =>
         \A k \in 1 .. Len(parsed) :
           (Processed(k) /\ OnThreePositions(parsed[k])) => ReportedFake(k)
    /\ qPtr = 0 =>
         /\ Len(faces) = Len(parsed)
         /\ \A k \in 1 .. Len(parsed) : SameCorners(faces[k], parsed[k])
    /\ qPtr = 3 => \A m \in 1 .. Len(stdout) : stdout[m][1] # "Fake Quad"

\* Under -q 0 the loop has passed a quad on four different vertices, two
\* of them at (4,4,0), and has printed nothing.
C21_Reached ==
    /\ qPtr = 0
    /\ pc = "validate"
    /\ i = 1
    /\ parsed[1].v = << 0, 1, 2, 4 >>
    /\ stdout = << >>

---------------------------------------------------------------------------

\* Corner l of face `now` refers, in the arrays of the store, to the
\* entry corner l of face `before` referred to in the arrays of pre.
SameEntry(cls, before, now, l) ==
    /\ l <= Len(IndicesOf(cls, now))
    /\ IndicesOf(cls, now)[l] < Len(ArrayOf(cls, Snapshot))
    /\ ArrayOf(cls, Snapshot)[IndicesOf(cls, now)[l] + 1].id
         = ArrayOf(cls, pre)[IndicesOf(cls, before)[l] + 1].id

\* C22: after OptimiseMesh every corner of every face refers, in the
\* rebuilt vertex, normal and uv arrays, to the entry it referred to
\* before, also when an index handed out during the rebuild equals an
\* index not visited yet, as in a first face on the vertices (1,0,2).
C22_CornersKeepTheirEntries ==
    OptimiseReturned =>
        \A k \in 1 .. Len(pre.faces) : \A cls \in Classes :
            \A l \in 1 .. Len(IndicesOf(cls, pre.faces[k])) :
                SameEntry(cls, pre.faces[k],
                          FaceWithId(faces, pre.faces[k].id), l)

\* OptimiseMesh has returned from the single face (1,0,2) and has left it
\* as (1,1,2) over the entries 1, 0, 2.
C22_Reached ==
    /\ OptimiseReturned
    /\ Len(pre.faces) = 1
    /\ pre.faces[1].v = << 1, 0, 2 >>
    /\ faces[1].v = << 1, 1, 2 >>
    /\ [k \in 1 .. Len(vertices) |-> vertices[k].id] = << 1, 0, 2 >>

OptimisePanicked ==
    moPtr /\ pc = "panic" /\ LastPrinted = << "panic", "OptimiseMesh" >>

AllInRange(st) == \A cls \in Classes : InRange(cls, st)

\* Every face of st has an index of every class at every corner.
AllCornersIndexed(st) ==
    \A k \in 1 .. Len(st.faces) : \A cls \in Classes :
        Len(IndicesOf(cls, st.faces[k])) >= st.faces[k].edges

\* C23: when every index of every face is in range before OptimiseMesh,
\* OptimiseMesh does not stop on an index out of range while it rewrites
\* the indices, and after it every vertex, normal and uv index is less
\* than the length of its rebuilt array.
C23_IndicesStayInRange ==
    (AllInRange(pre) /\ AllCornersIndexed(pre)) =>
        /\ ~OptimisePanicked
        /\ OptimiseReturned => AllInRange(Snapshot)

\* OptimiseMesh has returned from four entries per class and a face whose
\* first index is the highest: the arrays are shorter and the face's
\* indices were rewritten through values that were both old and new.
C23_Reached ==
    /\ OptimiseReturned
    /\ Len(pre.vertices) = 4
    /\ pre.faces[1].v = << 3, 0, 1 >>
    /\ Len(pre.faces[1].n) = 3
    /\ Len(vertices) = 3
    /\ AllInRange(Snapshot)

NoNormalOrUVIndices(fs) ==
    \A k \in 1 .. Len(fs) : fs[k].n = << >> /\ fs[k].uv = << >>

\* C24: on a file whose faces have no normal and no uv indices neither
\* ConvertQuadToTriangles nor OptimiseMesh stops the program, and every
\* face, an appended triangle included, still has none.
C24_AbsentIndicesAccepted ==
    NoNormalOrUVIndices(parsed) =>
        /\ ~ConvertPanicked
        /\ ~OptimisePanicked
        /\ NoNormalOrUVIndices(faces)

\* The cube without vn and vt lines went through the validation loop
\* under -q 0 and stopped the program in OptimiseMesh.
C24_Reached ==
    /\ NoNormalOrUVIndices(parsed)
    /\ qPtr = 0
    /\ Len(faces) = 6
    /\ OptimisePanicked

---------------------------------------------------------------------------

StridePanicked == pc = "panic" /\ LastPrinted = << "panic", "main" >>

\* C25: a file without faces goes through every stage of main without
\* the program stopping, and WriteOutput writes a file whose face count
\* is 0.
C25_NoFacesWritten ==
    parsed = << >> =>
        /\ pc # "panic"
        /\ pc = "done" => (HasHeader(outputFile) /\ Field(outputFile, 6) = Word(0))

\* A file of two vertices and no face stopped the program where the
\* stride distance starts from faces[0].v[0]; nothing was written.
C25_Reached ==
    /\ parsed = << >>
    /\ Len(vertices) = 2
    /\ StridePanicked
    /\ outputFile = << >>

---------------------------------------------------------------------------

\* The position of corner l (1 .. 4, taken around) of the quad parsed.
CornerAt(l) == Pos(vertices[parsed[1].v[((l - 1) % 4) + 1] + 1])

\* The z-component of the cross product of the edge that leaves corner l
\* and the edge that follows it, in the XY projection.
TurnAt(l) ==
    LET e == Sub(CornerAt(l + 1), CornerAt(l))
        g == Sub(CornerAt(l + 2), CornerAt(l + 1))
    IN  e[1] * g[2] - e[2] * g[1]

SameStrictSign ==
    \/ \A l \in 1 .. 4 : TurnAt(l) > 0
    \/ \A l \in 1 .. 4 : TurnAt(l) < 0

QuadIsPlanar ==
    ~NotPlanar(CornerAt(1), CornerAt(2), CornerAt(3), CornerAt(4))

ReportedNotConvex ==
    /\ pc = "aborted"
    /\ LastPrinted = << "Error validating quad face", "quad face is not convex" >>

\* C26: isConvex is true exactly when the four cross products of
\* consecutive edges of the XY projection are all above 0 or all below 0;
\* under -q 1 a planar quad is reported as not convex exactly when they
\* are not, in particular when one of them is 0.
C26_ConvexIffSameStrictSign ==
    (Len(parsed) = 1 /\ parsed[1].edges = 4) =>
        /\ isConvex(CornerAt(1)[1], CornerAt(1)[2], CornerAt(2)[1],
                    CornerAt(2)[2], CornerAt(3)[1], CornerAt(3)[2],
                    CornerAt(4)[1], CornerAt(4)[2]) = SameStrictSign
        /\ (pc # "validate" /\ QuadIsPlanar) =>
             (ReportedNotConvex <=> ~SameStrictSign)

\* The quad (0,0,0), (0,2,0), (0,2,2), (0,0,2) stands on the XY plane:
\* its projection is a segment, and -q 1 ended on "not convex".
C26_Reached ==
    /\ parsed[1].v = << 0, 3, 6, 5 >>
    /\ QuadIsPlanar
    /\ \A l \in 1 .. 4 : TurnAt(l) = 0
    /\ ReportedNotConvex

---------------------------------------------------------------------------

\* The bit vector stands for a number below 1024.
TenBits(b) == \A k \in 10 .. 31 : b[k] = 0

\* The number with bit k of b (k < 10) at bit 3k.
RECURSIVE EveryThird(_, _)
EveryThird(b, k) ==
    IF k < 0 THEN 0 ELSE b[k] * (8 ^ k) + EveryThird(b, k - 1)

Interleaved(q) ==
    EveryThird(q[1], 9) + 2 * EveryThird(q[2], 9) + 4 * EveryThird(q[3], 9)

\* mortonCode is what Morton3D makes of the inputs q.
CodeOf(code, q) ==
    /\ code < 2 ^ 30
    /\ (\A c \in 1 .. 3 : TenBits(q[c])) => code = Interleaved(q)

\* The inputs OptimiseMesh computed for the face of pre with history id d,
\* for the value u of an undefined conversion.
InputsOf(d, u) ==
    QuantizedCentroid(pre.vertices, FaceWithId(pre.faces, d), boundSphere, u)

\* Componentwise order on inputs below 1024: q below r in one argument,
\* equal in the others.
BelowInOne(q, r) ==
    \E c \in 1 .. 3 :
        /\ FromBits(q[c]) < FromBits(r[c])
        /\ \A e \in (1 .. 3) \ {c} : q[e] = r[e]

\* C27: the Morton code of every face is below 2^30 whatever the inputs,
\* the value of an undefined conversion and 1024 included; for inputs
\* below 1024 it has bit k of x at bit 3k, of y at bit 3k+1 and of z at
\* bit 3k+2, so different inputs give different codes and a greater input
\* in one argument gives a greater code.
C27_MortonInterleaves ==
    OptimiseReturned =>
        \E u \in UndefinedConversions :
            /\ \A k \in 1 .. Len(faces) :
                 CodeOf(faces[k].mortonCode, InputsOf(faces[k].id, u))
            /\ \A k, m \in 1 .. Len(faces) :
                 LET q == InputsOf(faces[k].id, u)
                     r == InputsOf(faces[m].id, u)
                 IN  (\A c \in 1 .. 3 : TenBits(q[c]) /\ TenBits(r[c])) =>
                       /\ q # r => faces[k].mortonCode # faces[m].mortonCode
                       /\ BelowInOne(q, r) =>
                            faces[k].mortonCode < faces[m].mortonCode

\* OptimiseMesh has returned from P = (5,1,2), Q = (3,3,3): the face on P
\* has three different inputs below 1024, and the face on P, P, Q has
\* other ones.
C27_Reached ==
    /\ OptimiseReturned
    /\ Pos(pre.vertices[1]) = << 5, 1, 2 >>
    /\ \E u \in UndefinedConversions :
         LET q == InputsOf(0, u)
             r == InputsOf(2, u)
         IN  /\ \A c \in 1 .. 3 : TenBits(q[c]) /\ TenBits(r[c])
             /\ q[1] # q[2] /\ q[2] # q[3] /\ q[1] # q[3]
             /\ q # r

---------------------------------------------------------------------------

\* The validation loop is at the head of an iteration.
InLoop == pc = "validate" /\ i < Len(faces)

\* The validation loop has ended: its condition failed, or the run ended
\* inside it.
LoopEnded == ~InLoop

\* The loop ran to its end: main went on to the later stages.
LoopCompleted ==
    pc \notin {"aborted", "panic"} /\ (pc = "validate" => i >= Len(faces))

\* One iteration: the face at i is examined and i moves on by one unless
\* the run ends there; the faces of the file stay where they are; the list
\* grows by at most one face, a triangle, and only when the face at i is a
\* quad of the file.
OneIteration ==
    InLoop =>
        /\ i' = i + 1 \/ (i' = i /\ pc' \in {"aborted", "panic"})
        /\ pc' = "aborted" => qPtr = 1
        /\ pc' = "panic" => parsed[1].n = << >>
        /\ Len(faces') \in {Len(faces), Len(faces) + 1}
        /\ \A k \in 1 .. Len(parsed) : faces'[k].id = parsed[k].id
        /\ Len(faces') > Len(faces) =>
             /\ i + 1 \in QuadsParsed
             /\ faces'[Len(faces')].edges = 3

\* C28: the validation loop ends on every run, in every mode.  An iteration
\* examines the face at i and moves i on by one, so no face is examined
\* twice; only quads of the file are split, and what a split appends is a
\* triangle; the list never holds more faces than the file's faces plus
\* the file's quads; the loop ends by the abort of -q 1 or by i reaching
\* the end of the list, the appended triangles examined too (or, on a file
\* without normal indices, inside ConvertQuadToTriangles).
C28_ValidationLoopTerminates ==
    /\ [][OneIteration]_vars
    /\ [](/\ Len(faces) <= Len(parsed) + Cardinality(QuadsParsed)
          /\ pc = "validate" => i <= Len(faces)
          /\ LoopCompleted => i = Len(faces))
    /\ <>[]LoopEnded

\* A file with two quads went through the loop under -q 3: the loop ran to
\* its end over four faces, the two appended triangles examined.
C28_Reached ==
    /\ LoopCompleted
    /\ qPtr = 3
    /\ Cardinality(QuadsParsed) = 2
    /\ Len(parsed) = 2
    /\ Len(faces) = 4
    /\ i = 4
    /\ \A k \in 1 .. 4 : faces[k].edges = 3

=============================================================================
